---- MODULE Spec2Model ----
(***************************************************************************)
(* State-machine model of the OpenCNPJ ETL pipeline (src/ETL_Python):      *)
(* the archive download stage (WebDownloader), the transfer pool           *)
(* (RcloneClient), the hash catalog (HashCacheManager), the per-prefix     *)
(* export loop (ParquetIngestor / NdjsonProcessor) and the pipeline        *)
(* command that sequences them.                                            *)
(*                                                                         *)
(* The program is single-threaded asyncio: a step of the model is the code *)
(* a coroutine runs between two points where it can be suspended (waiting  *)
(* for a semaphore or a lock, or for a subprocess / network answer).       *)
(***************************************************************************)
EXTENDS Integers, Sequences, FiniteSets, TLC

(***************************************************************************)
(* Bounds of the model                                                      *)
(***************************************************************************)
\* number of prefixes the export loop iterates (100 in the source: 00..99)
NumPrefixes == 2
\* config.ndjson.max_parallel_processing ranges over 0..MaxParallelCfg
MaxParallelCfg == 2
\* config.rclone.max_concurrent_uploads ranges over 1..MaxUploadsCfg
MaxUploadsCfg == 2
\* os.cpu_count() is None or ranges over 1..MaxCpu
MaxCpu == 1
\* number of times the pipeline command is invoked on the same disk state
MaxRuns == 2
\* number of archive URLs the listing page may give
NumUrls == 3
\* config.downloader.parallel_downloads ranges over 0..MaxDownloadsCfg
MaxDownloadsCfg == 2

(***************************************************************************)
(* Program constants                                                        *)
(***************************************************************************)
\* fallback of "os.cpu_count() or 8"
CpuFallback == 8
\* check_batch_size of get_items_to_process_async
check_batch_size == 500
\* HashCacheManager.BATCH_SIZE: inserts after which add_async commits
BATCH_SIZE == 10000
\* max_retries of _download_one_async
max_retries == 3

(***************************************************************************)
(* Identifiers, establishment rows and documents                           *)
(***************************************************************************)
Digits == <<"0", "1", "2", "3", "4", "5", "6", "7", "8", "9">>

\* f"{i:02d}" for i < 100, as a sequence of two characters
Fmt2(i) == <<Digits[(i \div 10) + 1], Digits[(i % 10) + 1]>>

\* prefixes = [f"{i:02d}" for i in range(100)], one task per index
Tasks == 0 .. (NumPrefixes - 1)
prefixes == [i \in Tasks |-> Fmt2(i)]

\* the pipeline command's own coroutine, as a caller of the transfer pool
Main == NumPrefixes
Callers == Tasks \cup {Main}
\* value of a lock nobody holds
NoOne == NumPrefixes + 1

Ordem0001 == <<"0", "0", "0", "1">>
Dv90 == <<"9", "0">>
Estab(basico, razao) ==
    [cnpj_basico |-> basico, cnpj_ordem |-> Ordem0001, cnpj_dv |-> Dv90,
     razao_social |-> razao]

\* rows the estabelecimento table may hold: two with numeric bases in the
\* partitions 00 and 01, one with an alphanumeric base (partition A0), and
\* one of partition 00 whose base column holds a run of blanks (the columns
\* are loaded as text, as they are in the CSV)
Universe ==
    { Estab(<<"0", "0", "1", "2", "3", "4", "5", "6">>, <<"A", " ", " ", "B">>),
      Estab(<<"0", "1", "1", "2", "3", "4", "5", "6">>, <<"C">>),
      Estab(<<"A", "0", "1", "2", "3", "4", "5", "6">>, <<" ", "D">>),
      Estab(<<"0", "0", " ", " ", "3", "4", "5", "6">>, <<"E">>) }

\* SUBSTRING(cnpj_basico, 1, 2) as cnpj_prefix
cnpj_prefix(e) == SubSeq(e.cnpj_basico, 1, 2)

\* cnpj := e.cnpj_basico || e.cnpj_ordem || e.cnpj_dv
CnpjOf(e) == e.cnpj_basico \o e.cnpj_ordem \o e.cnpj_dv

\* the struct the projection query packs for one establishment row
Project(e) == [cnpj |-> CnpjOf(e), razao_social |-> e.razao_social]

\* rows selected by "WHERE e.cnpj_prefix = '{prefix}'"
BuildJsonQueryForPrefix(table, prefix) ==
    { Project(e) : e \in { x \in table : cnpj_prefix(x) = prefix } }

\* \s: the blank and the tabulation stand for the whitespace characters
IsSpace(c) == c \in {" ", "\t"}

\* re.sub(r"\s+", " ", s) on a sequence of characters: each run of
\* whitespace becomes one blank
RECURSIVE CollapseSpaces(_)
CollapseSpaces(s) ==
    IF s = <<>> THEN <<>>
    ELSE IF ~IsSpace(s[1]) THEN <<s[1]>> \o CollapseSpaces(Tail(s))
    ELSE IF Len(s) >= 2 /\ IsSpace(s[2]) THEN CollapseSpaces(Tail(s))
    ELSE <<" ">> \o CollapseSpaces(Tail(s))

\* (mutant) one whitespace character is removed from the left end
StripLeft_One(s) ==
    IF s # <<>> /\ IsSpace(s[1]) THEN Tail(s) ELSE s

RECURSIVE StripLeft(_)
StripLeft(s) ==
    IF s # <<>> /\ IsSpace(s[1]) THEN StripLeft(Tail(s)) ELSE s

RECURSIVE StripRight(_)
StripRight(s) ==
    IF s # <<>> /\ IsSpace(s[Len(s)]) THEN StripRight(SubSeq(s, 1, Len(s) - 1))
    ELSE s

normalize_spaces(s) ==
    IF s = <<>> THEN <<>> ELSE CollapseSpaces(StripRight(StripLeft(s)))

\* clean_json_spaces on a projected document: every string leaf normalised
clean_json_spaces(doc) ==
    [cnpj |-> normalize_spaces(doc.cnpj),
     razao_social |-> normalize_spaces(doc.razao_social)]

\* xxh3_64 of the canonical text, kept abstract: equal texts, equal hashes
compute_hash(json) == <<"xxh3", json>>

\* a hash no current document has (the row of a document that changed since)
StaleHash == compute_hash([cnpj |-> <<>>, razao_social |-> <<"o", "l", "d">>])

\* process_line: one NDJSON line {"json_output": doc} to a ProcessedItem, or
\* nothing when the document has no cnpj
ProcessLine(doc) ==
    IF doc.cnpj = <<>> THEN <<>>
    ELSE << [cnpj |-> doc.cnpj, json |-> clean_json_spaces(doc),
             hash |-> compute_hash(clean_json_spaces(doc))] >>

\* _read_and_process_ndjson: the items of the lines of one NDJSON file, in
\* file order, the lines without a cnpj dropped
RECURSIVE ReadAndProcessNdjson(_)
ReadAndProcessNdjson(lines) ==
    IF lines = <<>> THEN <<>>
    ELSE ProcessLine(Head(lines)) \o ReadAndProcessNdjson(Tail(lines))

\* the orders in which the engine may emit a set of rows (unspecified order)
Orderings(S) ==
    { q \in [1 .. Cardinality(S) -> S] : \A x \in S : \E k \in DOMAIN q : q[k] = x }

Min(a, b) == IF a <= b THEN a ELSE b

\* set of the elements of a sequence
Range(q) == { q[k] : k \in DOMAIN q }

(***************************************************************************)
(* Hash catalog (HashCacheManager): pure parts                             *)
(***************************************************************************)
\* a catalog is a function from identifiers to hashes (cnpj is PRIMARY KEY)
EmptyCatalog == [c \in {} |-> StaleHash]

\* INSERT OR REPLACE INTO hashes (cnpj, hash) VALUES (?, ?)
InsertOrReplace(cat, cnpj, h) ==
    [c \in (DOMAIN cat) \cup {cnpj} |-> IF c = cnpj THEN h ELSE cat[c]]

\* the rows a connection sees after a sequence of "INSERT OR REPLACE"
\* statements <<cnpj, hash>>, applied in order
RECURSIVE ApplyInserts(_, _)
ApplyInserts(cat, q) ==
    IF q = <<>> THEN cat
    ELSE ApplyInserts(InsertOrReplace(cat, q[1][1], q[1][2]), Tail(q))

\* one probe of get_items_to_process_async: the items of the batch that are
\* absent from the catalog or present with another hash, in batch order
DiffBatch(cat, batch) ==
    SelectSeq(batch, LAMBDA it : \/ it.cnpj \notin DOMAIN cat
                                 \/ cat[it.cnpj] # it.hash)

\* (mutant) the next probe chunk starts on the last item of the chunk before
RECURSIVE GetItemsToProcessFrom_Overlap(_, _, _)
GetItemsToProcessFrom_Overlap(cat, items, i) ==
    IF i > Len(items) THEN <<>>
    ELSE DiffBatch(cat, SubSeq(items, i, Min(i + check_batch_size - 1, Len(items))))
         \o GetItemsToProcessFrom_Overlap(cat, items, i + check_batch_size - 1)

\* get_items_to_process_async: the probes of the chunks items[i:i+500]
RECURSIVE GetItemsToProcessFrom(_, _, _)
GetItemsToProcessFrom(cat, items, i) ==
    IF i > Len(items) THEN <<>>
    ELSE DiffBatch(cat, SubSeq(items, i, Min(i + check_batch_size - 1, Len(items))))
         \o GetItemsToProcessFrom(cat, items, i + check_batch_size)

GetItemsToProcess(cat, items) == GetItemsToProcessFrom(cat, items, 1)

\* catalogs the remote hashes.zip may hold for a corpus: every row with the
\* hash of the current document, or every row with an older hash
CurrentCatalog(table) ==
    [c \in { CnpjOf(e) : e \in table } |->
        compute_hash(clean_json_spaces(Project(CHOOSE e \in table : CnpjOf(e) = c)))]
StaleCatalog(table) == [c \in { CnpjOf(e) : e \in table } |-> StaleHash]

(***************************************************************************)
(* State                                                                    *)
(***************************************************************************)
VARIABLES
    cfg,            \* the configuration record and os.cpu_count() (0: None)
    estabelecimento,\* rows of the establishment table of the columnar dataset
    dbFile,         \* hash_cache_dir/hashes.db: [exists, rows]
    remoteZip,      \* hashes.zip at the remote root: [exists, rows]
    remote,         \* <identifier>.json objects of the remote store
    hcmInitialized, \* HashCacheManager._initialized
    hcmLock,        \* holder of HashCacheManager._lock, or NoOne
    pending,        \* inserts of the writer connection not yet committed
    ingestorInit,   \* ParquetIngestor._initialized_hash_cache
    sem,            \* free permits of the export loop's semaphore
    uploadSem,      \* free permits of RcloneClient._upload_semaphore
    subproc,        \* transfer-agent subprocess each caller is running
    pc,             \* where each prefix task is
    keep,           \* all_processed_items of each prefix task
    ndjson,         \* <output_dir>/<prefix>.ndjson: [exists, lines]
    scratch,        \* <output_dir>/<prefix>/: [exists, files]
    uploadResult,   \* what upload_folder_async returned to each prefix task
    mainPc,         \* where the pipeline command is
    published,      \* what upload_database_async returned
    testerLeft,     \* identifiers the integrity tester has still to compare
    exitCode,       \* what execute_async returned
    run,            \* number of the current invocation of the command
    hist,           \* what earlier steps did, for the claims
    parallel_downloads, \* config.downloader.parallel_downloads
    urls,           \* the URLs _list_zip_urls_async returned
    files,          \* download_dir: each file absent, partial or complete
    dl,             \* where the download of each URL is
    attempts,       \* fetches issued for each URL
    dsem,           \* free permits of the download semaphore
    results,        \* the list _download_all_async builds
    connection_lock,\* holder of ParquetIngestor._connection_lock, or NoOne
    query,          \* the query each caller has the engine session executing
    op,             \* the operation called on its own, and how far it is
    arg,            \* the argument it was given
    ret,            \* what it returned or raised
    log             \* the calls it made, in order, each with its outcome

vars == <<cfg, estabelecimento, dbFile, remoteZip, remote, hcmInitialized,
          hcmLock, pending, ingestorInit, sem, uploadSem, subproc, pc, keep, ndjson,
          scratch, uploadResult, mainPc, published, testerLeft, exitCode,
          run, hist, parallel_downloads, urls, files, dl, attempts, dsem,
          results, connection_lock, query, op, arg, ret, log>>

\* an operation called on its own (a utility, the single command)
callVars == <<op, arg, ret, log>>
\* the download stage
dlVars == <<parallel_downloads, urls, files, dl, attempts, dsem, results>>
\* the engine session: its mutex and the queries in progress
engineVars == <<connection_lock, query>>
\* what the stages after the download only read: configuration and dataset,
\* and what the download stage left. A step of the pipeline that runs a
\* query (a blocking call) begins and ends it, and takes and gives back the
\* mutex if it takes it at all, so it leaves the engine session as it was.
inputVars == <<cfg, estabelecimento, dlVars, callVars, engineVars>>
\* the catalog and its manager
catalogVars == <<dbFile, hcmInitialized, hcmLock, ingestorInit, pending>>
\* the transfer pool
poolVars == <<uploadSem, subproc>>
\* the files of the prefix tasks
fileVars == <<ndjson, scratch>>
\* the pipeline command outside the export loop
mainVars == <<mainPc, published, testerLeft, exitCode, run>>

NoFile == [exists |-> FALSE, rows |-> EmptyCatalog]
FileOf(rows) == [exists |-> TRUE, rows |-> rows]
NoNdjson == [exists |-> FALSE, lines |-> <<>>]
NoScratch == [exists |-> FALSE, files |-> {}]

\* the CPU count is read only when max_parallel_processing is not positive
Configs ==
    { c \in [max_parallel_processing : 0 .. MaxParallelCfg,
              max_concurrent_uploads : 1 .. MaxUploadsCfg,
              cpu_count : 0 .. MaxCpu] :
        c.max_parallel_processing > 0 => c.cpu_count = 1 }

\* (mutant) the CPU count is not consulted
MaxParallel_NoCpu(c) ==
    IF c.max_parallel_processing > 0 THEN c.max_parallel_processing
    ELSE CpuFallback

\* max_parallel of _export_to_ndjson_partitioned
MaxParallel(c) ==
    IF c.max_parallel_processing > 0 THEN c.max_parallel_processing
    ELSE IF c.cpu_count # 0 THEN c.cpu_count ELSE CpuFallback

\* state of a freshly started process: nothing opened, no task created
FreshProcess ==
    /\ hcmInitialized = FALSE
    /\ hcmLock = NoOne
    /\ pending = <<>>
    /\ ingestorInit = FALSE
    /\ connection_lock = NoOne
    /\ query = [c \in Callers |-> "none"]
    /\ sem = 0
    /\ uploadSem = cfg.max_concurrent_uploads
    /\ subproc = [c \in Callers |-> "none"]
    /\ pc = [p \in Tasks |-> "idle"]
    /\ keep = [p \in Tasks |-> <<>>]
    /\ uploadResult = [p \in Tasks |-> "none"]
    /\ published = "no"
    /\ testerLeft = 0
    /\ exitCode = "none"

\* no result yet
NoRet == [status |-> "none", val |-> <<>>]

\* no operation is called on its own
NoCall ==
    /\ op = "none"
    /\ arg = <<>>
    /\ ret = NoRet
    /\ log = <<>>

\* the URLs of the listing, numbered in page order
AllUrls == [i \in 1 .. NumUrls |-> i]

\* os.path.basename(url.split("?")[0]): the last URL of the page has the
\* base name of the first (another directory or query string), the others
\* have their own
Basename(u) == IF u = NumUrls /\ u > 1 THEN 1 ELSE u
Filenames == { Basename(u) : u \in 1 .. NumUrls }

\* the download stage when the listing page gave no archive: nothing is
\* downloaded, download_and_extract_async returns at once
NoDownload ==
    /\ parallel_downloads = 1
    /\ urls = <<>>
    /\ files = [f \in Filenames |-> "absent"]
    /\ dl = [u \in 1 .. NumUrls |-> "none"]
    /\ attempts = [u \in 1 .. NumUrls |-> 0]
    /\ dsem = 0
    /\ results = <<>>

\* the pipeline command after download_and_extract_async returned: the CSVs
\* are on disk, no local catalog yet; the remote may hold a hashes.zip
Init ==
    /\ NoDownload
    /\ NoCall
    /\ cfg \in Configs
    /\ estabelecimento \in SUBSET Universe
    /\ dbFile = NoFile
    /\ remoteZip \in { NoFile, FileOf(EmptyCatalog),
                        FileOf(CurrentCatalog(estabelecimento)),
                        FileOf(StaleCatalog(estabelecimento)) }
    /\ remote = {}
    /\ FreshProcess
    /\ ndjson = [p \in Tasks |-> NoNdjson]
    /\ scratch = [p \in Tasks |-> NoScratch]
    /\ mainPc = "convert"
    /\ run = 1
    /\ hist = [emptyAtOpen |-> FALSE, rowsAtOpen |-> EmptyCatalog,
               prevAllOk |-> FALSE, stageRaised |-> FALSE,
               filesAtStart |-> files]

(***************************************************************************)
(* Transfer pool (RcloneClient)                                            *)
(***************************************************************************)
\* (mutant) "rclone copy" is spawned outside the semaphore
UploadFolderStart_NoPermit(c) ==
    /\ subproc[c] = "none"
    /\ subproc' = [subproc EXCEPT ![c] = "copy_dir"]
    /\ uploadSem' = IF uploadSem > 0 THEN uploadSem - 1 ELSE 0

\* upload_folder_async up to the spawn of "rclone copy": takes a permit of
\* the upload semaphore, waiting while none is free
UploadFolderStart(c) ==
    /\ subproc[c] = "none"
    /\ uploadSem > 0
    /\ uploadSem' = uploadSem - 1
    /\ subproc' = [subproc EXCEPT ![c] = "copy_dir"]

\* upload_folder_async from the exit of the subprocess: gives the permit back
UploadFolderEnd(c) ==
    /\ subproc[c] = "copy_dir"
    /\ uploadSem' = uploadSem + 1
    /\ subproc' = [subproc EXCEPT ![c] = "none"]

\* upload_file_async up to the spawn of "rclone copyto local remote"
UploadFileStart(c) ==
    /\ subproc[c] = "none"
    /\ subproc' = [subproc EXCEPT ![c] = "copy_file"]
    /\ UNCHANGED uploadSem

UploadFileEnd(c) ==
    /\ subproc[c] = "copy_file"
    /\ subproc' = [subproc EXCEPT ![c] = "none"]
    /\ UNCHANGED uploadSem

\* copy_to_async (download_file_async) up to the spawn of "rclone copyto
\* remote local"
CopyToStart(c) ==
    /\ subproc[c] = "none"
    /\ subproc' = [subproc EXCEPT ![c] = "fetch_file"]
    /\ UNCHANGED uploadSem

CopyToEnd(c) ==
    /\ subproc[c] = "fetch_file"
    /\ subproc' = [subproc EXCEPT ![c] = "none"]
    /\ UNCHANGED uploadSem

\* the remote store after "rclone copy" transferred the files S
RemotePut(store, S) ==
    { o \in store : \A f \in S : f.cnpj # o.cnpj } \cup S

(***************************************************************************)
(* Prefix tasks: process_prefix and process_ndjson_file_to_storage         *)
(***************************************************************************)
\* (mutant) the catalog write is not gated on the result of the upload
AfterUpload_Ungated(success) == "add_batch"

\* process_ndjson_file_to_storage, lines 125-128: the catalog write follows
\* a successful upload, a failed upload raises
AfterUpload(success) == IF success THEN "add_batch" ELSE "raise"

\* (mutant) the exception of a prefix task leaves process_prefix
ProcessPrefixExcept_Reraise == "raised"

\* process_prefix, lines 301-307: an exception of the task is caught, shown
\* and the task ends normally
ProcessPrefixExcept == "done"

\* "async with sem" of process_prefix: the task waits for a permit
TaskAcquire(p) ==
    /\ pc[p] = "wait_sem"
    /\ sem > 0
    /\ sem' = sem - 1
    /\ pc' = [pc EXCEPT ![p] = "export"]
    /\ UNCHANGED <<inputVars, catalogVars, poolVars, fileVars, mainVars,
                   remoteZip, remote, keep, uploadResult, hist>>

\* _export_single_prefix: COPY (query of the prefix) TO <prefix>.ndjson
TaskExport(p) ==
    /\ pc[p] = "export"
    /\ \E lines \in Orderings(BuildJsonQueryForPrefix(estabelecimento, prefixes[p])) :
           ndjson' = [ndjson EXCEPT ![p] = [exists |-> TRUE, lines |-> lines]]
    /\ pc' = [pc EXCEPT ![p] = "process"]
    /\ UNCHANGED <<inputVars, catalogVars, poolVars, scratch, mainVars,
                   remoteZip, remote, keep, uploadResult, sem, hist>>

\* (mutant) no file is written before the upload is started
ScratchFiles_Later(items) == {}

\* the files process_ndjson_file_to_storage writes for its items
ScratchFiles(items) == { [cnpj |-> it.cnpj, json |-> it.json] : it \in Range(items) }

\* process_ndjson_file_to_storage up to the upload: read and parse the
\* NDJSON file, diff against the catalog, write the scratch files. The diff
\* waits for the catalog lock. An empty file, or an empty diff, ends the task
\* (the NDJSON file is removed); a closed catalog raises (it is kept).
TaskProcess(p) ==
    /\ pc[p] = "process"
    /\ LET processed == ReadAndProcessNdjson(ndjson[p].lines)
           kept == GetItemsToProcess(ApplyInserts(dbFile.rows, pending),
                                     processed)
       IN  IF processed = <<>>
           THEN /\ pc' = [pc EXCEPT ![p] = "done"]
                /\ sem' = sem + 1
                /\ ndjson' = [ndjson EXCEPT ![p] = NoNdjson]
                /\ UNCHANGED <<keep, scratch>>
           ELSE IF ~hcmInitialized
           THEN /\ pc' = [pc EXCEPT ![p] = ProcessPrefixExcept]
                /\ sem' = sem + 1
                /\ UNCHANGED <<keep, scratch, ndjson>>
           ELSE /\ hcmLock = NoOne
                /\ keep' = [keep EXCEPT ![p] = kept]
                /\ IF kept = <<>>
                   THEN /\ pc' = [pc EXCEPT ![p] = "done"]
                        /\ sem' = sem + 1
                        /\ ndjson' = [ndjson EXCEPT ![p] = NoNdjson]
                        /\ UNCHANGED scratch
                   ELSE /\ pc' = [pc EXCEPT ![p] = "upload_wait"]
                        /\ scratch' = [scratch EXCEPT ![p] =
                               [exists |-> TRUE,
                                files |-> RemotePut(@.files, ScratchFiles(kept))]]
                        /\ UNCHANGED <<sem, ndjson>>
    /\ UNCHANGED <<inputVars, catalogVars, poolVars, mainVars, remoteZip,
                   remote, uploadResult, hist>>

\* upload_folder_async is entered: permit and spawn of the transfer agent
TaskUploadStart(p) ==
    /\ pc[p] = "upload_wait"
    /\ UploadFolderStart(p)
    /\ pc' = [pc EXCEPT ![p] = "uploading"]
    /\ UNCHANGED <<inputVars, catalogVars, fileVars, mainVars, remoteZip,
                   remote, keep, uploadResult, sem, hist>>

\* the transfer agent exits: with code 0 every file is on the remote and
\* the task goes on to add_batch_async; with another code (some of the files
\* may be there) the task raises, its scratch directory is removed
\* (finally) and process_prefix handles the exception
TaskUploadEnd(p) ==
    /\ pc[p] = "uploading"
    /\ UploadFolderEnd(p)
    /\ \E ok \in BOOLEAN :
         \E sent \in SUBSET scratch[p].files :
           /\ ok => sent = scratch[p].files
           /\ remote' = RemotePut(remote, sent)
           /\ uploadResult' = [uploadResult EXCEPT ![p] = IF ok THEN "ok" ELSE "fail"]
           /\ IF AfterUpload(ok) = "add_batch"
              THEN /\ pc' = [pc EXCEPT ![p] = "add_batch"]
                   /\ UNCHANGED <<sem, scratch>>
              ELSE /\ pc' = [pc EXCEPT ![p] = ProcessPrefixExcept]
                   /\ sem' = sem + 1
                   /\ scratch' = [scratch EXCEPT ![p] = NoScratch]
    /\ UNCHANGED <<inputVars, catalogVars, ndjson, mainVars, remoteZip, keep,
                   hist>>

\* add_async: takes the catalog lock, INSERT OR REPLACE of one row, gives the
\* lock back. For a caller that already holds the lock (asyncio.Lock is not
\* reentrant) the acquire never returns: the action is not enabled.
AddAsync(c, cnpj, h) ==
    /\ hcmLock = NoOne
    /\ IF Len(pending) + 1 >= BATCH_SIZE
       THEN /\ dbFile' = [dbFile EXCEPT !.rows =
                              ApplyInserts(@, Append(pending, <<cnpj, h>>))]
            /\ pending' = <<>>
       ELSE /\ pending' = Append(pending, <<cnpj, h>>)
            /\ UNCHANGED dbFile
    /\ UNCHANGED hcmLock

\* _commit_batch_async: the pending inserts become rows of the file
CommitBatch ==
    /\ dbFile' = [dbFile EXCEPT !.rows = ApplyInserts(@, pending)]
    /\ pending' = <<>>

\* add_batch_async is entered: "async with cls._lock", then the loop calls
\* add_async for the first item while the lock is held. With no item the
\* loop is skipped: commit, release, and the task ends.
TaskAddBatch(p) ==
    /\ pc[p] = "add_batch"
    /\ hcmLock = NoOne
    /\ IF keep[p] = <<>>
       THEN /\ pc' = [pc EXCEPT ![p] = "done"]
            /\ sem' = sem + 1
            /\ ndjson' = [ndjson EXCEPT ![p] = NoNdjson]
            /\ scratch' = [scratch EXCEPT ![p] = NoScratch]
            /\ CommitBatch
            /\ UNCHANGED hcmLock
       ELSE /\ hcmLock' = p
            /\ pc' = [pc EXCEPT ![p] = "add_async"]
            /\ UNCHANGED <<sem, ndjson, scratch, dbFile, pending>>
    /\ UNCHANGED <<inputVars, hcmInitialized, ingestorInit, poolVars,
                   mainVars, remoteZip, remote, keep, uploadResult, hist>>

\* the step a task inside add_batch_async would take next: add_async of its
\* first item. The task holds the lock add_async waits for, so the step is
\* never enabled and is no disjunct of Next.
TaskAddAsync(p) ==
    /\ pc[p] = "add_async"
    /\ AddAsync(p, Head(keep[p]).cnpj, Head(keep[p]).hash)
    /\ keep' = [keep EXCEPT ![p] = Tail(@)]
    /\ UNCHANGED <<inputVars, hcmInitialized, ingestorInit, poolVars, fileVars,
                   mainVars, remoteZip, remote, pc, uploadResult, sem, hist>>

(***************************************************************************)
(* Pipeline command (PipelineCommand.execute_async), stages 2 to 6         *)
(***************************************************************************)
\* sample size of IntegrityTester.run_async
TesterTotal == 10

\* stage 2, convert_csvs_to_parquet: the dataset is written, or the engine
\* raises and the command returns 1
MainConvert ==
    /\ mainPc = "convert"
    /\ \E ok \in BOOLEAN :
         IF ok
         THEN /\ mainPc' = "open_catalog"
              /\ UNCHANGED <<exitCode, hist>>
         ELSE /\ mainPc' = "exited"
              /\ exitCode' = "1"
              /\ hist' = [hist EXCEPT !.stageRaised = TRUE]
    /\ UNCHANGED <<inputVars, catalogVars, poolVars, fileVars, remoteZip,
                   remote, pc, keep, uploadResult, sem, published, testerLeft,
                   run>>

\* sqlite3.connect, CREATE TABLE IF NOT EXISTS, pragmas
Connect(rows) ==
    /\ dbFile' = FileOf(rows)
    /\ hcmInitialized' = TRUE
    /\ ingestorInit' = TRUE
    /\ hist' = [hist EXCEPT !.emptyAtOpen = (rows = EmptyCatalog),
                            !.rowsAtOpen = rows]

\* stage 3, initialize_database: a local hashes.db is opened as it is;
\* without one, hashes.zip is fetched from the remote first
MainOpenCatalog ==
    /\ mainPc = "open_catalog"
    /\ IF dbFile.exists
       THEN /\ Connect(dbFile.rows)
            /\ mainPc' = "load"
            /\ UNCHANGED poolVars
       ELSE /\ CopyToStart(Main)
            /\ mainPc' = "fetch_catalog"
            /\ UNCHANGED <<dbFile, hcmInitialized, ingestorInit, hist>>
    /\ UNCHANGED <<inputVars, hcmLock, pending, fileVars, remoteZip, remote,
                   pc, keep, uploadResult, sem, published, testerLeft,
                   exitCode, run>>

\* the fetch of hashes.zip returns: unzipped into hashes.db when it succeeded
\* (possible only if the remote has one), else an empty table is created
MainFetchCatalogEnd ==
    /\ mainPc = "fetch_catalog"
    /\ CopyToEnd(Main)
    /\ \E ok \in BOOLEAN :
         /\ ok => remoteZip.exists
         /\ Connect(IF ok THEN remoteZip.rows ELSE EmptyCatalog)
    /\ mainPc' = "load"
    /\ UNCHANGED <<inputVars, hcmLock, pending, fileVars, remoteZip, remote,
                   pc, keep, uploadResult, sem, published, testerLeft,
                   exitCode, run>>

\* _load_parquet_tables, then _export_to_ndjson_partitioned creates the
\* semaphore and hands the 100 process_prefix tasks to asyncio.gather
MainStartGather ==
    /\ mainPc = "load"
    /\ sem' = MaxParallel(cfg)
    /\ pc' = [p \in Tasks |-> "wait_sem"]
    /\ mainPc' = "gather"
    /\ UNCHANGED <<inputVars, catalogVars, poolVars, fileVars, remoteZip,
                   remote, keep, uploadResult, published, testerLeft, exitCode,
                   run, hist>>

\* (mutant) the gather returns when the first task has ended
GatherDone_First == \E p \in Tasks : pc[p] = "done"

\* asyncio.gather returns when every task has ended; the exception of a task
\* is raised to the command at once, which then returns 1
GatherDone == \A p \in Tasks : pc[p] = "done"

MainGatherReturn ==
    /\ mainPc = "gather"
    /\ IF \E p \in Tasks : pc[p] = "raised"
       THEN /\ mainPc' = "exited"
            /\ exitCode' = "1"
       ELSE /\ GatherDone
            /\ mainPc' = "publish"
            /\ UNCHANGED exitCode
    /\ UNCHANGED <<inputVars, catalogVars, poolVars, fileVars, remoteZip,
                   remote, pc, keep, uploadResult, sem, published, testerLeft,
                   run, hist>>

\* upload_database_async up to the spawn of the upload: under the catalog
\* lock, commit, close_connections, copy, zip, then upload_file_async
MainPublishStart ==
    /\ mainPc = "publish"
    /\ hcmLock = NoOne
    /\ hcmLock' = Main
    /\ hcmInitialized' = FALSE
    /\ CommitBatch
    /\ UploadFileStart(Main)
    /\ mainPc' = "publish_upload"
    /\ UNCHANGED <<inputVars, ingestorInit, fileVars, remoteZip,
                   remote, pc, keep, uploadResult, sem, published, testerLeft,
                   exitCode, run, hist>>

\* where the command goes on when upload_database_async has returned: its
\* result is not looked at, the export returns and stage 4 begins
AfterPublish_Abort(result) == IF result = "ok" THEN "tester" ELSE "exited"
AfterPublish(result) == "tester"

\* the upload of hashes.zip returns; its result is only shown
MainPublishEnd ==
    /\ mainPc = "publish_upload"
    /\ UploadFileEnd(Main)
    /\ \E ok \in BOOLEAN :
         /\ remoteZip' = IF ok THEN FileOf(dbFile.rows) ELSE remoteZip
         /\ published' = IF ok THEN "ok" ELSE "fail"
    /\ hcmLock' = NoOne
    /\ mainPc' = AfterPublish(published')
    /\ UNCHANGED <<inputVars, dbFile, pending, hcmInitialized, ingestorInit,
                   fileVars, remote, pc, keep, uploadResult, sem, testerLeft,
                   exitCode, run, hist>>

\* stage 4, IntegrityTester.run_async: the sample is picked; an empty sample
\* ends the stage. The pick is taken to return here (the table stands for
\* one with at least TesterTotal identifiers); its loop on a smaller table
\* is the subject of SpecSample.
MainTesterPick ==
    /\ mainPc = "tester"
    /\ testerLeft' = Min(Cardinality(estabelecimento), TesterTotal)
    /\ mainPc' = IF testerLeft' = 0 THEN "zip" ELSE "tester_loop"
    /\ UNCHANGED <<inputVars, catalogVars, poolVars, fileVars, remoteZip,
                   remote, pc, keep, uploadResult, sem, published, exitCode,
                   run, hist>>

\* one identifier of the sample: rendered locally, then fetched
MainTesterFetchStart ==
    /\ mainPc = "tester_loop"
    /\ CopyToStart(Main)
    /\ mainPc' = "tester_fetch"
    /\ UNCHANGED <<inputVars, catalogVars, fileVars, remoteZip, remote, pc,
                   keep, uploadResult, sem, published, testerLeft, exitCode,
                   run, hist>>

\* the fetch returns, the hashes are compared and the result is recorded;
\* after the last identifier the report is shown
MainTesterFetchEnd ==
    /\ mainPc = "tester_fetch"
    /\ CopyToEnd(Main)
    /\ testerLeft' = testerLeft - 1
    /\ mainPc' = IF testerLeft' = 0 THEN "zip" ELSE "tester_loop"
    /\ UNCHANGED <<inputVars, catalogVars, fileVars, remoteZip, remote, pc,
                   keep, uploadResult, sem, published, exitCode, run, hist>>

\* stage 5, export_jsons_to_zip: the consolidated archive is written
MainZip ==
    /\ mainPc = "zip"
    /\ mainPc' = "manifest"
    /\ UNCHANGED <<inputVars, catalogVars, poolVars, fileVars, remoteZip,
                   remote, pc, keep, uploadResult, sem, published, testerLeft,
                   exitCode, run, hist>>

\* stage 6, generate_and_upload_final_info_json_async up to the spawn of the
\* upload of info.json
MainManifestStart ==
    /\ mainPc = "manifest"
    /\ UploadFileStart(Main)
    /\ mainPc' = "manifest_upload"
    /\ UNCHANGED <<inputVars, catalogVars, fileVars, remoteZip, remote, pc,
                   keep, uploadResult, sem, published, testerLeft, exitCode,
                   run, hist>>

\* the upload of info.json returns (its result is only shown); the ingestor
\* is disposed and the command returns 0
MainManifestEnd ==
    /\ mainPc = "manifest_upload"
    /\ UploadFileEnd(Main)
    /\ mainPc' = "exited"
    /\ exitCode' = "0"
    /\ UNCHANGED <<inputVars, catalogVars, fileVars, remoteZip, remote, pc,
                   keep, uploadResult, sem, published, testerLeft, run, hist>>

\* the steps of one invocation of the command
TaskNext(p) ==
    \/ TaskAcquire(p)
    \/ TaskExport(p)
    \/ TaskProcess(p)
    \/ TaskUploadStart(p)
    \/ TaskUploadEnd(p)
    \/ TaskAddBatch(p)

MainNext ==
    \/ MainConvert
    \/ MainOpenCatalog
    \/ MainFetchCatalogEnd
    \/ MainStartGather
    \/ MainGatherReturn
    \/ MainPublishStart
    \/ MainPublishEnd
    \/ MainTesterPick
    \/ MainTesterFetchStart
    \/ MainTesterFetchEnd
    \/ MainZip
    \/ MainManifestStart
    \/ MainManifestEnd

ProcessNext == MainNext \/ \E p \in Tasks : TaskNext(p)

\* a prefix task that has ended or waits for a permit or a lock that is not
\* free
TaskBlocked(p) ==
    \/ pc[p] = "done"
    \/ pc[p] = "wait_sem" /\ sem = 0
    \/ /\ pc[p] = "process"
       /\ ReadAndProcessNdjson(ndjson[p].lines) # <<>>
       /\ hcmInitialized
       /\ hcmLock # NoOne
    \/ pc[p] = "upload_wait" /\ uploadSem = 0
    \/ pc[p] \in {"add_batch", "add_async"} /\ hcmLock # NoOne

\* the invocation hangs: the command awaits the gather, and every task that
\* has not ended waits for something only a waiting task could give back
RunStuck ==
    /\ exitCode = "none"
    /\ mainPc = "gather"
    /\ \A p \in Tasks : TaskBlocked(p)
    /\ \E p \in Tasks : pc[p] # "done"

\* every upload of the invocation returned success and no task is still
\* short of its upload
AllUploadsOk ==
    /\ mainPc \in {"gather", "publish", "publish_upload", "tester", "tester_loop",
                    "tester_fetch", "zip", "manifest", "manifest_upload", "exited"}
    /\ \A p \in Tasks : /\ uploadResult[p] # "fail"
                         /\ pc[p] \in {"done", "add_batch", "add_async"}

\* the command is invoked again on the same inputs and the same disk and
\* remote state, after the previous invocation returned or, when it hangs,
\* was interrupted: a new process, nothing opened
Rerun ==
    /\ run < MaxRuns
    /\ exitCode # "none" \/ RunStuck
    /\ run' = run + 1
    /\ hcmInitialized' = FALSE
    /\ hcmLock' = NoOne
    /\ pending' = <<>>
    /\ ingestorInit' = FALSE
    /\ sem' = 0
    /\ uploadSem' = cfg.max_concurrent_uploads
    /\ subproc' = [c \in Callers |-> "none"]
    /\ pc' = [p \in Tasks |-> "idle"]
    /\ keep' = [p \in Tasks |-> <<>>]
    /\ uploadResult' = [p \in Tasks |-> "none"]
    /\ published' = "no"
    /\ testerLeft' = 0
    /\ exitCode' = "none"
    /\ mainPc' = "convert"
    /\ hist' = [emptyAtOpen |-> FALSE, rowsAtOpen |-> EmptyCatalog,
                prevAllOk |-> AllUploadsOk, stageRaised |-> FALSE,
                filesAtStart |-> files]
    /\ UNCHANGED <<inputVars, dbFile, fileVars, remoteZip, remote>>

\* one invocation of the pipeline command
Next == ProcessNext

Spec == Init /\ [][Next]_vars

\* invocations of the pipeline command one after the other
NextRerun == ProcessNext \/ Rerun

SpecRerun == Init /\ [][NextRerun]_vars

\* one invocation under fair scheduling: the event loop runs a task that is
\* ready, and every engine query and every transfer-agent subprocess
\* returns, so the invocation stops only where no step is possible. No step
\* of an invocation can be repeated for ever (each moves a task or the
\* command forward), so no stronger condition is needed to keep a waiter of a
\* semaphore or a lock from being passed over. The parallelism is the
\* configured one (with 0, the CPU count or the fallback gives the export
\* loop the same numbers of permits).
InitFair == Init /\ cfg.max_parallel_processing > 0 /\ cfg.cpu_count = 1

SpecFair == InitFair /\ [][Next]_vars /\ WF_vars(Next)

(***************************************************************************)
(* The transfer pool under any callers                                     *)
(***************************************************************************)
\* everything but the transfer pool
nonPoolVars == <<inputVars, catalogVars, fileVars, mainVars, remoteZip, remote,
                 sem, pc, keep, uploadResult, hist>>

\* a process whose coroutines call the three operations of RcloneClient in
\* any order and at any time
InitPool ==
    /\ Init
    /\ estabelecimento = {}
    /\ remoteZip = NoFile

PoolUploadFolderStart(c) == UploadFolderStart(c) /\ UNCHANGED nonPoolVars
PoolUploadFolderEnd(c) == UploadFolderEnd(c) /\ UNCHANGED nonPoolVars
PoolUploadFileStart(c) == UploadFileStart(c) /\ UNCHANGED nonPoolVars
PoolUploadFileEnd(c) == UploadFileEnd(c) /\ UNCHANGED nonPoolVars
PoolCopyToStart(c) == CopyToStart(c) /\ UNCHANGED nonPoolVars
PoolCopyToEnd(c) == CopyToEnd(c) /\ UNCHANGED nonPoolVars

NextPool ==
    \E c \in Callers :
        \/ PoolUploadFolderStart(c)
        \/ PoolUploadFolderEnd(c)
        \/ PoolUploadFileStart(c)
        \/ PoolUploadFileEnd(c)
        \/ PoolCopyToStart(c)
        \/ PoolCopyToEnd(c)

SpecPool == InitPool /\ [][NextPool]_vars

(***************************************************************************)
(* Archive download (WebDownloader), stage 1 of the pipeline command       *)
(***************************************************************************)
\* everything but the download stage and the position of the command
nonDlVars == <<cfg, estabelecimento, catalogVars, poolVars, fileVars, remoteZip,
               remote, sem, pc, keep, uploadResult, published, testerLeft, run,
               engineVars, callVars>>

\* the index of the URLs of a listing
UrlsOf(list) == { list[i] : i \in 1 .. Len(list) }

\* os.path.exists(filepath): a file cut short by an earlier failure exists
Exists(state) == state # "absent"

\* (mutant) every URL of the listing is downloaded
ToDownload_All(disk, u) == TRUE

\* to_download of _download_all_async
ToDownload(disk, u) == ~Exists(disk[Basename(u)])

\* the paths of the files found on disk, in listing order
RECURSIVE MarkExisting(_, _)
MarkExisting(disk, list) ==
    IF list = <<>> THEN <<>>
    ELSE IF ToDownload(disk, Head(list)) THEN MarkExisting(disk, Tail(list))
    ELSE <<Basename(Head(list))>> \o MarkExisting(disk, Tail(list))

\* (mutant) one more attempt before giving up
GiveUp_OffByOne(retry) == retry > max_retries

\* "if retry >= max_retries: raise" of _download_one_async
GiveUp(retry) == retry >= max_retries

\* the command starts with the download directory in any state earlier runs
\* can have left, and any listing
InitDownload ==
    /\ parallel_downloads \in 0 .. MaxDownloadsCfg
    /\ \E n \in 0 .. NumUrls : urls = SubSeq(AllUrls, 1, n)
    /\ files \in [Filenames -> {"absent", "partial", "complete"}]
    /\ dl = [u \in 1 .. NumUrls |-> "none"]
    /\ attempts = [u \in 1 .. NumUrls |-> 0]
    /\ dsem = 0
    /\ results = <<>>
    /\ NoCall
    /\ cfg = [max_parallel_processing |-> 1, max_concurrent_uploads |-> 1,
              cpu_count |-> 1]
    /\ estabelecimento = {}
    /\ dbFile = NoFile
    /\ remoteZip = NoFile
    /\ remote = {}
    /\ FreshProcess
    /\ ndjson = [p \in Tasks |-> NoNdjson]
    /\ scratch = [p \in Tasks |-> NoScratch]
    /\ mainPc = "download"
    /\ run = 1
    /\ hist = [emptyAtOpen |-> FALSE, rowsAtOpen |-> EmptyCatalog,
               prevAllOk |-> FALSE, stageRaised |-> FALSE,
               filesAtStart |-> files]

\* download_and_extract_async: the listing; none, and the stage returns;
\* else _download_all_async up to the gather: the files on disk go to the
\* results, a download task is created for each of the others
MainDownloadStart ==
    /\ mainPc = "download"
    /\ IF urls = <<>>
       THEN /\ mainPc' = "convert"
            /\ UNCHANGED <<dl, dsem, results>>
       ELSE /\ mainPc' = "downloading"
            /\ results' = MarkExisting(files, urls)
            /\ dl' = [u \in 1 .. NumUrls |->
                        IF u \in UrlsOf(urls)
                        THEN IF ToDownload(files, u) THEN "wait" ELSE "skipped"
                        ELSE "none"]
            /\ dsem' = IF parallel_downloads > 1 THEN parallel_downloads ELSE 1
    /\ UNCHANGED <<nonDlVars, parallel_downloads, urls, files, attempts,
                   exitCode, hist>>

\* (mutant) the fetch is started without waiting for a permit
DlAcquire_NoPermit(u) ==
    /\ mainPc = "downloading"
    /\ dl[u] = "wait"
    /\ dsem' = IF dsem > 0 THEN dsem - 1 ELSE 0
    /\ dl' = [dl EXCEPT ![u] = "fetching"]
    /\ attempts' = [attempts EXCEPT ![u] = @ + 1]
    /\ UNCHANGED <<nonDlVars, parallel_downloads, urls, files, results, mainPc,
                   exitCode, hist>>

\* download_with_sem: a permit of the download semaphore, then the first
\* session.get of _download_one_async
DlAcquire(u) ==
    /\ mainPc = "downloading"
    /\ dl[u] = "wait"
    /\ dsem > 0
    /\ dsem' = dsem - 1
    /\ dl' = [dl EXCEPT ![u] = "fetching"]
    /\ attempts' = [attempts EXCEPT ![u] = @ + 1]
    /\ UNCHANGED <<nonDlVars, parallel_downloads, urls, files, results, mainPc,
                   exitCode, hist>>

\* the end of an attempt of _download_one_async. It succeeds: the file is
\* written whole, the path is returned and appended to the results, the
\* permit is given back. It fails before the file is opened ("refused") or
\* after ("cut", the file is left as far as it was written): retry counts
\* the attempts made; at max_retries the exception leaves the task, else
\* the task sleeps, still holding its permit
DlAttemptEnd(u) ==
    /\ mainPc = "downloading"
    /\ dl[u] = "fetching"
    /\ \E outcome \in {"ok", "refused", "cut"} :
        /\ files' = CASE outcome = "ok" ->
                            [files EXCEPT ![Basename(u)] = "complete"]
                      [] outcome = "cut" ->
                            [files EXCEPT ![Basename(u)] = "partial"]
                      [] OTHER -> files
        /\ IF outcome = "ok"
           THEN /\ dl' = [dl EXCEPT ![u] = "done"]
                /\ results' = Append(results, Basename(u))
                /\ dsem' = dsem + 1
           ELSE IF GiveUp(attempts[u])
           THEN /\ dl' = [dl EXCEPT ![u] = "failed"]
                /\ dsem' = dsem + 1
                /\ UNCHANGED results
           ELSE /\ dl' = [dl EXCEPT ![u] = "sleeping"]
                /\ UNCHANGED <<dsem, results>>
    /\ UNCHANGED <<nonDlVars, parallel_downloads, urls, attempts, mainPc,
                   exitCode, hist>>

\* the back-off sleep of _download_one_async ends: the next session.get
DlWake(u) ==
    /\ mainPc = "downloading"
    /\ dl[u] = "sleeping"
    /\ dl' = [dl EXCEPT ![u] = "fetching"]
    /\ attempts' = [attempts EXCEPT ![u] = @ + 1]
    /\ UNCHANGED <<nonDlVars, parallel_downloads, urls, files, dsem, results,
                   mainPc, exitCode, hist>>

\* the download tasks still running
Unfinished == { u \in 1 .. NumUrls : dl[u] \in {"wait", "fetching", "sleeping"} }

\* the gather of _download_all_async returns. A task raised: the exception
\* crosses download_and_extract_async to the except of execute_async, the
\* command returns 1 and the event loop cancels the other tasks, those in a
\* transfer with their file as far as it was written or not yet opened.
\* Every task returned: the results go to _extract_all_async
MainDownloadReturn ==
    /\ mainPc = "downloading"
    /\ IF \E u \in 1 .. NumUrls : dl[u] = "failed"
       THEN /\ mainPc' = "exited"
            /\ exitCode' = "1"
            /\ hist' = [hist EXCEPT !.stageRaised = TRUE]
            /\ dl' = [u \in 1 .. NumUrls |->
                        IF u \in Unfinished THEN "cancelled" ELSE dl[u]]
            /\ \E cut \in SUBSET { u \in Unfinished : dl[u] = "fetching" } :
                 files' = [f \in Filenames |->
                             IF \E u \in cut : Basename(u) = f
                             THEN "partial" ELSE files[f]]
       ELSE /\ Unfinished = {}
            /\ mainPc' = "extract"
            /\ UNCHANGED <<exitCode, hist, dl, files>>
    /\ UNCHANGED <<nonDlVars, parallel_downloads, urls, attempts, dsem,
                   results>>

\* _extract_all_async: the errors of an archive are caught and shown; the
\* stage returns and the command goes on to the conversion
MainExtract ==
    /\ mainPc = "extract"
    /\ mainPc' = "convert"
    /\ UNCHANGED <<nonDlVars, dlVars, exitCode, hist>>

DlNext(u) ==
    \/ DlAcquire(u)
    \/ DlAttemptEnd(u)
    \/ DlWake(u)

NextDownload ==
    \/ MainDownloadStart
    \/ MainDownloadReturn
    \/ MainExtract
    \/ \E u \in 1 .. NumUrls : DlNext(u)

\* stage 1 of the pipeline command
SpecDownload == InitDownload /\ [][NextDownload]_vars

\* stage 1 under fair scheduling: the event loop runs a task that is ready,
\* and every request is answered or fails (the session has no timeout, so
\* this is an assumption on the server). The attempts of a URL are bounded
\* and no step can be repeated for ever, so the stage stops only where no
\* step is possible.
SpecDownloadFair == SpecDownload /\ WF_vars(NextDownload)

\* the command is invoked again with the same listing, after stage 1 of
\* the previous invocation returned or raised: a new process, the download
\* directory as the previous invocation left it
DownloadRerun ==
    /\ mainPc \in {"convert", "exited"}
    /\ run < MaxRuns
    /\ run' = run + 1
    /\ mainPc' = "download"
    /\ exitCode' = "none"
    /\ dl' = [u \in 1 .. NumUrls |-> "none"]
    /\ attempts' = [u \in 1 .. NumUrls |-> 0]
    /\ dsem' = 0
    /\ results' = <<>>
    /\ hist' = [hist EXCEPT !.stageRaised = FALSE, !.filesAtStart = files]
    /\ UNCHANGED <<cfg, estabelecimento, catalogVars, poolVars, fileVars,
                   remoteZip, remote, sem, pc, keep, uploadResult, published,
                   testerLeft, engineVars, callVars, parallel_downloads, urls,
                   files>>

\* a first invocation on a download directory that holds whole archives or
\* none, never a part of one
InitDownloadClean ==
    /\ InitDownload
    /\ \A f \in Filenames : files[f] # "partial"

\* stage 1 of successive invocations of the command
SpecDownloadRerun ==
    InitDownloadClean /\ [][NextDownload \/ DownloadRerun]_vars

(***************************************************************************)
(* Identifier utilities (CnpjUtils)                                        *)
(***************************************************************************)
\* longest runs of the strings given to the utilities
MaxHead == 14
MaxMid == 2
MaxTail == 2

\* lengths the patterns of CnpjUtils ask for
BASE_LENGTH == 12
CnpjLength == 14

\* the characters of the strings given to the utilities: digits, letters of
\* both cases, a mask character, a blank, a decimal digit outside ASCII
\* ("u0665", ARABIC-INDIC DIGIT FIVE) and a letter whose upper case is two
\* characters ("ufb01", LATIN SMALL LIGATURE FI)
Chars == {"1", "2", "A", "a", ".", " ", "u0665", "ufb01"}

\* n times the character c
Rep(c, n) == [i \in 1 .. n |-> c]

\* the strings given to the utilities: up to three runs of one character
CnpjInputs ==
    { Rep(c1, n1) \o Rep(c2, n2) \o Rep(c3, n3) :
        c1 \in Chars, n1 \in 0 .. MaxHead,
        c2 \in Chars, n2 \in 0 .. MaxMid,
        c3 \in Chars, n3 \in 0 .. MaxTail }

\* str.isspace
IsBlank(c) == c = " "
\* "not cnpj or not cnpj.strip()"
BlankString(s) == \A i \in 1 .. Len(s) : IsBlank(s[i])

\* MASK_CHARACTERS = [./-]
IsMask(c) == c \in {".", "/", "-"}

\* str.upper of one character
Upper(c) ==
    CASE c = "a" -> <<"A">>
      [] c = "ufb01" -> <<"F", "I">>
      [] OTHER -> <<c>>

\* [0-9]
AsciiDigit(c) == c \in {"0", "1", "2", "3", "4", "5", "6", "7", "8", "9"}
\* \d of a str pattern: every Unicode decimal digit
ReDigit(c) == AsciiDigit(c) \/ c = "u0665"
\* [A-Z] of a pattern compiled without flags
AsciiUpper(c) == c \in {"A", "F", "I"}
\* [A-Z] of a pattern compiled with re.IGNORECASE
AsciiLetterIgnoreCase(c) == c \in {"A", "a", "F", "I"}

\* MASK_CHARACTERS.sub("", cnpj).upper()
RECURSIVE UnmaskUpper(_)
UnmaskUpper(s) ==
    IF s = <<>> THEN <<>>
    ELSE (IF IsMask(Head(s)) THEN <<>> ELSE Upper(Head(s))) \o UnmaskUpper(Tail(s))

\* (mutant) a blank string is unmasked like any other
remove_mask_NoBlankCase(s) == UnmaskUpper(s)

\* CnpjUtils.remove_mask
remove_mask(s) == IF BlankString(s) THEN <<>> ELSE UnmaskUpper(s)

\* INVALID_CHARACTERS.search(cnpj), INVALID_CHARACTERS = [^A-Z\d./-] with
\* re.IGNORECASE
HasInvalidCharacters(s) ==
    \E i \in 1 .. Len(s) :
        ~(AsciiLetterIgnoreCase(s[i]) \/ ReDigit(s[i]) \/ IsMask(s[i]))

\* FULL_CNPJ_PATTERN.match(raw), FULL_CNPJ_PATTERN = ^[A-Z\d]{12}\d{2}$
FullCnpjPattern(raw) ==
    /\ Len(raw) = BASE_LENGTH + 2
    /\ \A i \in 1 .. BASE_LENGTH : AsciiUpper(raw[i]) \/ ReDigit(raw[i])
    /\ \A i \in (BASE_LENGTH + 1) .. (BASE_LENGTH + 2) : ReDigit(raw[i])

\* CnpjUtils._is_repeated_sequence
is_repeated_sequence(raw) ==
    /\ Len(raw) >= 2
    /\ \A i \in 1 .. Len(raw) : raw[i] = raw[1]

\* CnpjUtils.is_valid_format
is_valid_format(s) ==
    /\ ~BlankString(s)
    /\ ~HasInvalidCharacters(s)
    /\ Len(remove_mask(s)) = CnpjLength
    /\ FullCnpjPattern(remove_mask(s))
    /\ ~is_repeated_sequence(remove_mask(s))

\* CnpjUtils.parse_cnpj: the three parts, or ValueError
parse_cnpj(s) ==
    IF Len(remove_mask(s)) # CnpjLength
    THEN [status |-> "raise", val |-> <<"ValueError">>]
    ELSE [status |-> "ok",
          val |-> << SubSeq(remove_mask(s), 1, 8), SubSeq(remove_mask(s), 9, 12),
                     SubSeq(remove_mask(s), 13, 14) >>]

\* everything but the operation called on its own
nonCallVars == <<cfg, estabelecimento, dlVars, catalogVars, poolVars, fileVars,
                 mainVars, remoteZip, remote, sem, pc, keep, uploadResult, hist,
                 engineVars>>

\* the program with nothing running but the call of a utility
IdleProgram ==
    /\ NoDownload
    /\ cfg = [max_parallel_processing |-> 1, max_concurrent_uploads |-> 1,
              cpu_count |-> 1]
    /\ estabelecimento = {}
    /\ dbFile = NoFile
    /\ remoteZip = NoFile
    /\ remote = {}
    /\ FreshProcess
    /\ ndjson = [p \in Tasks |-> NoNdjson]
    /\ scratch = [p \in Tasks |-> NoScratch]
    /\ mainPc = "exited"
    /\ run = 1
    /\ hist = [emptyAtOpen |-> FALSE, rowsAtOpen |-> EmptyCatalog,
               prevAllOk |-> FALSE, stageRaised |-> FALSE,
               filesAtStart |-> files]

\* a caller about to apply a utility of CnpjUtils to a string
InitCnpj ==
    /\ IdleProgram
    /\ op = "none"
    /\ arg \in CnpjInputs
    /\ ret = NoRet
    /\ log = <<>>

CallRemoveMask ==
    /\ op = "none"
    /\ op' = "remove_mask"
    /\ ret' = [status |-> "ok", val |-> <<remove_mask(arg)>>]
    /\ UNCHANGED <<nonCallVars, arg, log>>

CallIsValidFormat ==
    /\ op = "none"
    /\ op' = "is_valid_format"
    /\ ret' = [status |-> "ok", val |-> <<is_valid_format(arg)>>]
    /\ UNCHANGED <<nonCallVars, arg, log>>

CallParseCnpj ==
    /\ op = "none"
    /\ op' = "parse_cnpj"
    /\ ret' = parse_cnpj(arg)
    /\ UNCHANGED <<nonCallVars, arg, log>>

NextCnpj ==
    \/ CallRemoveMask
    \/ CallIsValidFormat
    \/ CallParseCnpj

SpecCnpj == InitCnpj /\ [][NextCnpj]_vars

(***************************************************************************)
(* The single command and the single-entity projection                     *)
(***************************************************************************)
\* the identifiers the sampler of the integrity tester can draw: cnpj_basico
\* || cnpj_ordem || cnpj_dv of a row of estabelecimento
SampleIdentifiers == { CnpjOf(e) : e \in Universe }

\* a call and its outcome, as an entry of the log
Called(name, outcome) == [call |-> name, outcome |-> outcome]

\* the command or the tester returned
Returned(status, value) == [status |-> status, val |-> <<value>>]

\* the single command, or the integrity tester, about to be given an
\* identifier
InitSingle ==
    /\ IdleProgram
    /\ op = "none"
    /\ arg \in CnpjInputs \cup SampleIdentifiers
    /\ ret = NoRet
    /\ log = <<>>

\* SingleCommand.__init__: "if not is_valid_format(cnpj): raise ValueError"
SingleCommandInit(s) == is_valid_format(s)

\* main.single: the constructor; its ValueError is caught and the process
\* exits with 1; else execute_async starts and creates the ingestor
SingleStart ==
    /\ op = "none"
    /\ log' = Append(log, Called("is_valid_format",
                                  IF is_valid_format(arg) THEN "true" ELSE "false"))
    /\ IF SingleCommandInit(arg)
       THEN op' = "load" /\ UNCHANGED ret
       ELSE op' = "exited" /\ ret' = Returned("exit", "1")
    /\ UNCHANGED <<nonCallVars, arg>>

\* IntegrityTester.run_async: an identifier of the sample is handed to
\* export_single_cnpj_async
TesterStart ==
    /\ op = "none"
    /\ arg \in SampleIdentifiers
    /\ log' = Append(log, Called("pick_sample", "drawn"))
    /\ op' = "load"
    /\ UNCHANGED <<nonCallVars, arg, ret>>

\* who called export_single_cnpj_async
FromSingleCommand == log # <<>> /\ log[1].call = "is_valid_format"

\* an exception leaves export_single_cnpj_async: execute_async of the single
\* command returns 1; the tester notes the identifier as failed
ExportRaised ==
    IF FromSingleCommand THEN Returned("exit", "1") ELSE Returned("result", "fail")

\* export_single_cnpj_async returns: execute_async of the single command
\* returns 0; the tester goes on with the file
ExportReturned ==
    IF FromSingleCommand THEN Returned("exit", "0") ELSE Returned("result", "returned")

\* export_single_cnpj_async: _load_parquet_tables, outside the try
ExportLoad ==
    /\ op = "load"
    /\ \E ok \in BOOLEAN :
         /\ log' = Append(log, Called("load_parquet_tables",
                                       IF ok THEN "ok" ELSE "raise"))
         /\ IF ok THEN op' = "parse" /\ UNCHANGED ret
            ELSE op' = "exited" /\ ret' = ExportRaised
    /\ UNCHANGED <<nonCallVars, arg>>

\* export_single_cnpj_async: parse_cnpj, outside the try
ExportParse ==
    /\ op = "parse"
    /\ log' = Append(log, Called("parse_cnpj", parse_cnpj(arg).status))
    /\ IF parse_cnpj(arg).status = "ok" THEN op' = "query" /\ UNCHANGED ret
       ELSE op' = "exited" /\ ret' = ExportRaised
    /\ UNCHANGED <<nonCallVars, arg>>

\* export_single_cnpj_async: the query and the write of <cnpj>.json, inside
\* "try ... except Exception" that only prints: the query raises, finds no
\* row, or finds one, and then the write succeeds or raises; the function
\* returns in every case
ExportQuery ==
    /\ op = "query"
    /\ \E found \in {"raise", "none", "row"} :
         \E write \in {"ok", "raise"} :
            /\ log' = IF found = "row"
                      THEN log \o <<Called("query", found), Called("write", write)>>
                      ELSE Append(log, Called("query", found))
            /\ op' = "exited"
            /\ ret' = ExportReturned
    /\ UNCHANGED <<nonCallVars, arg>>

NextSingle ==
    \/ SingleStart
    \/ TesterStart
    \/ ExportLoad
    \/ ExportParse
    \/ ExportQuery

SpecSingle == InitSingle /\ [][NextSingle]_vars

(***************************************************************************)
(* Canonical JSON text (JsonCleanupUtils)                                  *)
(***************************************************************************)
\* longest array or object of the JSON texts given to clean_json_spaces
MaxItems == 2

\* JSON values: a kind, the characters of a string or the lexeme of a
\* number, the keys of an object, the items of an array or object
JStr(s) == [k |-> "str", s |-> s, keys |-> <<>>, items |-> <<>>]
JNum(lexeme) == [k |-> "num", s |-> <<lexeme>>, keys |-> <<>>, items |-> <<>>]
JLit(name) == [k |-> name, s |-> <<>>, keys |-> <<>>, items |-> <<>>]
JArr(items) == [k |-> "arr", s |-> <<>>, keys |-> <<>>, items |-> items]
JObj(keys, items) == [k |-> "obj", s |-> <<>>, keys |-> keys, items |-> items]

\* string leaves: empty, with runs of whitespace inside and at the ends,
\* whitespace only
JsonStrings ==
    { <<>>, <<" ", "\t", "a", " ", " ", "b", "\t">>, <<"\t", " ">> }
\* number lexemes: an integer, a float in exponent notation
JsonNumbers == {"1", "1e2"}
\* object keys, one with whitespace
JsonKeys == { <<"k">>, <<" ", "k", " ">> }

JsonLeaves ==
    { JStr(s) : s \in JsonStrings } \cup { JNum(n) : n \in JsonNumbers }
        \cup { JLit("true"), JLit("null") }
\* the leaves written as members of objects
JsonMemberLeaves ==
    { JStr(<<" ", "\t", "a", " ", " ", "b", "\t">>), JNum("1e2") }

\* the sequences of at most n elements of S
SeqUpTo(S, n) == UNION { [1 .. m -> S] : m \in 0 .. n }

\* arrays of at most MaxItems items of S
Arrays(S) == { JArr(items) : items \in SeqUpTo(S, MaxItems) }
\* objects of at most MaxItems members (keys may repeat) with values in S
Objects(S) ==
    UNION { { JObj(keys, items) : keys \in [1 .. m -> JsonKeys],
                                   items \in [1 .. m -> S] } : m \in 0 .. MaxItems }

\* arrays and objects of leaves
FlatContainers == Arrays(JsonLeaves) \cup Objects(JsonMemberLeaves)

\* the values written in the JSON texts: leaves, containers of leaves, and
\* containers of one container
JsonValues ==
    JsonLeaves \cup FlatContainers \cup
    { JArr(<<c>>) : c \in FlatContainers } \cup
    { JObj(<<key>>, <<c>>) : key \in JsonKeys, c \in FlatContainers }

\* a text: the value it writes when it is JSON, with or without whitespace
\* between the tokens; else its characters
JsonText(value, ws) == [parses |-> TRUE, ws |-> ws, value |-> value]
NotJson(chars) == [parses |-> FALSE, ws |-> FALSE, value |-> JStr(chars)]

Texts ==
    { JsonText(v, ws) : v \in JsonValues, ws \in BOOLEAN } \cup
    { NotJson(c) : c \in { <<>>, <<"{", " ", " ", "a">>, <<" ", "x", " ", " ">> } }

\* the lexeme json.dumps writes for the number json.loads read: int and
\* float repr
NumberRepr(lexeme) ==
    CASE lexeme = "1e2" -> "100.0"
      [] OTHER -> lexeme

\* position of the first member with the key of member i
FirstWithKey(keys, i) == CHOOSE j \in 1 .. i : keys[j] = keys[i] /\ \A h \in 1 .. (j - 1) : keys[h] # keys[i]
\* position of the last member with the key of member i
LastWithKey(keys, i) == CHOOSE j \in i .. Len(keys) : keys[j] = keys[i] /\ \A h \in (j + 1) .. Len(keys) : keys[h] # keys[i]
\* the positions a dict keeps: the first of each key, in order
RECURSIVE KeptPositions(_, _)
KeptPositions(keys, i) ==
    IF i > Len(keys) THEN <<>>
    ELSE (IF FirstWithKey(keys, i) = i THEN <<i>> ELSE <<>>) \o KeptPositions(keys, i + 1)

\* json.loads on the value a text writes: numbers become int or float, an
\* object becomes a dict (a repeated key keeps its first position and its
\* last value)
RECURSIVE Loads(_)
Loads(v) ==
    CASE v.k = "num" -> JNum(NumberRepr(v.s[1]))
      [] v.k = "arr" -> JArr([i \in 1 .. Len(v.items) |-> Loads(v.items[i])])
      [] v.k = "obj" ->
            LET kept == KeptPositions(v.keys, 1)
            IN  JObj([n \in 1 .. Len(kept) |-> v.keys[kept[n]]],
                     [n \in 1 .. Len(kept) |->
                         Loads(v.items[LastWithKey(v.keys, kept[n])])])
      [] OTHER -> v

\* json.dumps(cleaned, ensure_ascii=False, separators=(',', ':'))
Dumps(v) == JsonText(v, FALSE)

\* (mutant) the keys are normalised as well
RECURSIVE clean_element_Keys(_)
clean_element_Keys(v) ==
    CASE v.k = "obj" ->
            JObj([i \in 1 .. Len(v.keys) |-> normalize_spaces(v.keys[i])],
                 [i \in 1 .. Len(v.items) |-> clean_element_Keys(v.items[i])])
      [] v.k = "arr" ->
            JArr([i \in 1 .. Len(v.items) |-> clean_element_Keys(v.items[i])])
      [] v.k = "str" -> JStr(normalize_spaces(v.s))
      [] OTHER -> v

\* JsonCleanupUtils._clean_element
RECURSIVE clean_element(_)
clean_element(v) ==
    CASE v.k = "obj" ->
            JObj(v.keys, [i \in 1 .. Len(v.items) |-> clean_element(v.items[i])])
      [] v.k = "arr" ->
            JArr([i \in 1 .. Len(v.items) |-> clean_element(v.items[i])])
      [] v.k = "str" -> JStr(normalize_spaces(v.s))
      [] OTHER -> v

\* JsonCleanupUtils.clean_json_spaces on a text: a text json.loads refuses
\* is returned as it is
clean_json_text(text) ==
    IF text.parses THEN Dumps(clean_element(Loads(text.value))) ELSE text

\* a caller about to canonicalize a text
InitJson ==
    /\ IdleProgram
    /\ op = "none"
    /\ arg \in Texts
    /\ ret = NoRet
    /\ log = <<>>

\* clean_json_spaces(arg)
CallCleanJsonSpaces ==
    /\ op = "none"
    /\ op' = "cleaned"
    /\ ret' = [status |-> "ok", val |-> <<clean_json_text(arg)>>]
    /\ UNCHANGED <<nonCallVars, arg, log>>

\* clean_json_spaces applied to what it returned
CallCleanJsonSpacesAgain ==
    /\ op = "cleaned"
    /\ op' = "cleaned_twice"
    /\ ret' = [ret EXCEPT !.val = Append(@, clean_json_text(ret.val[1]))]
    /\ UNCHANGED <<nonCallVars, arg, log>>

NextJson ==
    \/ CallCleanJsonSpaces
    \/ CallCleanJsonSpacesAgain

SpecJson == InitJson /\ [][NextJson]_vars

(***************************************************************************)
(* The projection of one establishment row (_get_json_struct_fields)       *)
(***************************************************************************)
\* most columns of the establishment missing at once, next to the joined rows
MaxMissing == 1
\* longest first and second run of characters of a date input
MaxDateHead == 8
MaxDateTail == 1

\* a column or a field: NULL, or a string
Null == <<>>
Some(s) == <<s>>
IsNull(x) == x = Null
\* COALESCE(x, d)
Coalesce(x, d) == IF IsNull(x) THEN Some(d) ELSE x
\* x || y
Concat(x, y) == IF IsNull(x) \/ IsNull(y) THEN Null ELSE Some(x[1] \o y[1])

\* the columns of estabelecimento the projection reads
PhoneColumns ==
    {"e.ddd1", "e.telefone1", "e.ddd2", "e.telefone2", "e.ddd_fax", "e.fax"}
EstabColumns ==
    {"e.cnpj_ordem", "e.cnpj_dv", "e.nome_fantasia", "e.situacao_cadastral",
     "e.data_situacao_cadastral", "e.identificador_matriz_filial",
     "e.data_inicio_atividade", "e.cnae_principal", "e.tipo_logradouro",
     "e.logradouro", "e.numero", "e.complemento", "e.bairro", "e.cep", "e.uf",
     "e.correio_eletronico"}
\* the rows LEFT JOINed to it and the columns read from each
Joined == {"emp", "s", "nat", "mun"}
JoinedColumns(t) ==
    CASE t = "emp" -> {"emp.razao_social", "emp.capital_social", "emp.porte_empresa"}
      [] t = "s" -> {"s.opcao_simples", "s.data_opcao_simples", "s.opcao_mei",
                     "s.data_opcao_mei"}
      [] t = "nat" -> {"nat.descricao"}
      [] t = "mun" -> {"mun.descricao"}
DateColumns ==
    {"e.data_situacao_cadastral", "e.data_inicio_atividade",
     "s.data_opcao_simples", "s.data_opcao_mei"}
CodeColumns ==
    {"e.situacao_cadastral", "e.identificador_matriz_filial", "emp.porte_empresa"}
Columns ==
    {"e.cnpj_basico"} \cup EstabColumns \cup PhoneColumns
        \cup UNION { JoinedColumns(t) : t \in Joined }

\* codes found in the code columns: known, unknown, short, long, empty
CodeInputs ==
    { <<"1">>, <<"2">>, <<"3">>, <<"8">>, <<"0", "0">>, <<"0", "1">>,
      <<"0", "2">>, <<"0", "3">>, <<"0", "4">>, <<"0", "5">>, <<"0", "8">>,
      <<"9", "9">>, <<"0", "2", "1">>, <<>> }
\* strings found in the date columns: two dates, and up to two runs of one
\* character
DateChars == {"0", "9", "a", "u0665"}
DateInputs ==
    { <<"2", "0", "2", "4", "0", "1", "3", "1">>,
      <<"1", "9", "8", "7", "1", "2", "0", "5">> } \cup
    { Rep(c1, n1) \o Rep(c2, n2) :
        c1 \in DateChars, n1 \in 0 .. MaxDateHead,
        c2 \in DateChars, n2 \in 0 .. MaxDateTail }

\* a row with every column present: the date columns hold d, the code columns
\* hold code, each telephone column a value of its own
FullRow(d, code) ==
    [c \in Columns |->
        CASE c \in DateColumns -> Some(d)
          [] c \in CodeColumns -> Some(code)
          [] c = "e.cnpj_basico" -> Some(<<"0", "0", "1", "2", "3", "4", "5", "6">>)
          [] c = "e.cnpj_ordem" -> Some(Ordem0001)
          [] c = "e.cnpj_dv" -> Some(Dv90)
          [] c = "e.ddd1" -> Some(<<"1", "1">>)
          [] c = "e.telefone1" -> Some(<<"1">>)
          [] c = "e.ddd2" -> Some(<<"2", "2">>)
          [] c = "e.telefone2" -> Some(<<"2">>)
          [] c = "e.ddd_fax" -> Some(<<"3", "3">>)
          [] c = "e.fax" -> Some(<<"3">>)
          [] OTHER -> Some(<<"x">>)]

\* the row with the columns of S missing
NullOut(row, S) == [c \in Columns |-> IF c \in S THEN Null ELSE row[c]]

\* what can be missing: any telephone columns; any joined rows together with
\* at most MaxMissing columns of the establishment; everything
MissingSets ==
    (SUBSET PhoneColumns) \cup
    { UNION { JoinedColumns(t) : t \in J } \cup E :
        J \in SUBSET Joined,
        E \in { X \in SUBSET EstabColumns : Cardinality(X) <= MaxMissing } } \cup
    { Columns \ {"e.cnpj_basico"} }

\* the rows projected: a full row with every missing set, with every code,
\* and with every date, at most one date column missing
Rows ==
    { NullOut(FullRow(<<"2", "0", "2", "4", "0", "1", "3", "1">>, <<"0", "2">>), S) :
        S \in MissingSets } \cup
    { FullRow(<<"2", "0", "2", "4", "0", "1", "3", "1">>, code) :
        code \in CodeInputs } \cup
    { NullOut(FullRow(d, <<"0", "2">>), S) :
        d \in DateInputs, S \in {{}} \cup { {c} : c \in DateColumns } }

\* LPAD(s, 2, '0'): padded on the left to two characters, cut to two
Lpad2(x) ==
    IF IsNull(x) THEN Null
    ELSE IF Len(x[1]) >= 2 THEN Some(SubSeq(x[1], 1, 2))
    ELSE Some(Rep("0", 2 - Len(x[1])) \o x[1])

\* situacao_cadastral := CASE LPAD(...) WHEN ... ELSE e.situacao_cadastral END
SituacaoCadastral(x) ==
    CASE Lpad2(x) = Some(<<"0", "1">>) -> Some(<<"Nula">>)
      [] Lpad2(x) = Some(<<"0", "2">>) -> Some(<<"Ativa">>)
      [] Lpad2(x) = Some(<<"0", "3">>) -> Some(<<"Suspensa">>)
      [] Lpad2(x) = Some(<<"0", "4">>) -> Some(<<"Inapta">>)
      [] Lpad2(x) = Some(<<"0", "8">>) -> Some(<<"Baixada">>)
      [] OTHER -> x

\* matriz_filial := CASE ... ELSE e.identificador_matriz_filial END
MatrizFilial(x) ==
    CASE x = Some(<<"1">>) -> Some(<<"Matriz">>)
      [] x = Some(<<"2">>) -> Some(<<"Filial">>)
      [] OTHER -> x

\* porte_empresa := CASE ... ELSE COALESCE(emp.porte_empresa, '') END
PorteEmpresa(x) ==
    CASE x = Some(<<"0", "0">>) -> Some(<<"Nao informado">>)  \* written with a tilde in the query
      [] x = Some(<<"0", "1">>) -> Some(<<"Microempresa (ME)">>)
      [] x = Some(<<"0", "3">>) -> Some(<<"Empresa de Pequeno Porte (EPP)">>)
      [] x = Some(<<"0", "5">>) -> Some(<<"Demais">>)
      [] OTHER -> Coalesce(x, <<>>)

\* x ~ '^[0-9]{8}$'
MatchesDate(x) ==
    /\ ~IsNull(x)
    /\ Len(x[1]) = 8
    /\ \A i \in 1 .. 8 : AsciiDigit(x[1][i])

\* (mutant) the month taken one character early
FormatDate_Offset(x) ==
    IF MatchesDate(x)
    THEN Some(SubSeq(x[1], 1, 4) \o <<"-">> \o SubSeq(x[1], 4, 5) \o <<"-">>
                 \o SubSeq(x[1], 7, 8))
    ELSE Coalesce(x, <<>>)

\* CASE WHEN x ~ '^[0-9]{8}$' THEN SUBSTRING(x, 1, 4) || '-' ||
\* SUBSTRING(x, 5, 2) || '-' || SUBSTRING(x, 7, 2) ELSE COALESCE(x, '') END
FormatDate(x) ==
    IF MatchesDate(x)
    THEN Some(SubSeq(x[1], 1, 4) \o <<"-">> \o SubSeq(x[1], 5, 6) \o <<"-">>
                 \o SubSeq(x[1], 7, 8))
    ELSE Coalesce(x, <<>>)

\* (mutant) a slot is kept only when both of its values are present
PhoneSlot_Both(ddd, numero, is_fax) ==
    IF ~IsNull(ddd) /\ ~IsNull(numero)
    THEN Some([ddd |-> ddd[1], numero |-> numero[1], is_fax |-> is_fax])
    ELSE Null

\* CASE WHEN ddd IS NOT NULL OR numero IS NOT NULL THEN struct_pack(...)
\* ELSE NULL END
PhoneSlot(ddd, numero, is_fax) ==
    IF ~IsNull(ddd) \/ ~IsNull(numero)
    THEN Some([ddd |-> Coalesce(ddd, <<>>)[1],
               numero |-> Coalesce(numero, <<>>)[1],
               is_fax |-> is_fax])
    ELSE Null

\* list_filter(l, x -> x IS NOT NULL): the present slots, unwrapped, in order
RECURSIVE ListFilterNotNull(_)
ListFilterNotNull(l) ==
    IF l = <<>> THEN <<>>
    ELSE (IF IsNull(l[1]) THEN <<>> ELSE <<l[1][1]>>) \o ListFilterNotNull(Tail(l))

\* telefones := list_filter([...], x -> x IS NOT NULL)
Telefones(row) ==
    ListFilterNotNull(<< PhoneSlot(row["e.ddd1"], row["e.telefone1"], FALSE),
                         PhoneSlot(row["e.ddd2"], row["e.telefone2"], FALSE),
                         PhoneSlot(row["e.ddd_fax"], row["e.fax"], TRUE) >>)

\* the string-typed fields of the document
StringFields ==
    {"cnpj", "razao_social", "nome_fantasia", "situacao_cadastral",
     "data_situacao_cadastral", "matriz_filial", "data_inicio_atividade",
     "cnae_principal", "natureza_juridica", "tipo_logradouro", "logradouro",
     "numero", "complemento", "bairro", "cep", "uf", "municipio", "email",
     "capital_social", "porte_empresa", "opcao_simples", "data_opcao_simples",
     "opcao_mei", "data_opcao_mei"}

\* struct_pack(_get_json_struct_fields()) on one row and its joined rows
get_json_struct_fields(row) ==
    [cnpj |-> Concat(Concat(row["e.cnpj_basico"], row["e.cnpj_ordem"]),
                     row["e.cnpj_dv"]),
     razao_social |-> Coalesce(row["emp.razao_social"], <<>>),
     nome_fantasia |-> Coalesce(row["e.nome_fantasia"], <<>>),
     situacao_cadastral |-> SituacaoCadastral(row["e.situacao_cadastral"]),
     data_situacao_cadastral |-> FormatDate(row["e.data_situacao_cadastral"]),
     matriz_filial |-> MatrizFilial(row["e.identificador_matriz_filial"]),
     data_inicio_atividade |-> FormatDate(row["e.data_inicio_atividade"]),
     cnae_principal |-> Coalesce(row["e.cnae_principal"], <<>>),
     natureza_juridica |-> Coalesce(row["nat.descricao"], <<>>),
     tipo_logradouro |-> Coalesce(row["e.tipo_logradouro"], <<>>),
     logradouro |-> Coalesce(row["e.logradouro"], <<>>),
     numero |-> Coalesce(row["e.numero"], <<>>),
     complemento |-> Coalesce(row["e.complemento"], <<>>),
     bairro |-> Coalesce(row["e.bairro"], <<>>),
     cep |-> Coalesce(row["e.cep"], <<>>),
     uf |-> Coalesce(row["e.uf"], <<>>),
     municipio |-> Coalesce(row["mun.descricao"], <<>>),
     email |-> Coalesce(row["e.correio_eletronico"], <<>>),
     telefones |-> Telefones(row),
     capital_social |-> Coalesce(row["emp.capital_social"], <<>>),
     porte_empresa |-> PorteEmpresa(row["emp.porte_empresa"]),
     opcao_simples |-> Coalesce(row["s.opcao_simples"], <<>>),
     data_opcao_simples |-> FormatDate(row["s.data_opcao_simples"]),
     opcao_mei |-> Coalesce(row["s.opcao_mei"], <<>>),
     data_opcao_mei |-> FormatDate(row["s.data_opcao_mei"])]

\* a row of estabelecimento, with its joined rows, about to be projected
InitProject ==
    /\ IdleProgram
    /\ op = "none"
    /\ arg \in Rows
    /\ ret = NoRet
    /\ log = <<>>

\* the row selected by _build_json_query_for_prefix: the cnpj column and the
\* document
ProjectForPrefix ==
    /\ op = "none"
    /\ op' = "prefix"
    /\ ret' = [status |-> "ok",
               val |-> <<get_json_struct_fields(arg),
                         Concat(Concat(arg["e.cnpj_basico"], arg["e.cnpj_ordem"]),
                                arg["e.cnpj_dv"])>>]
    /\ UNCHANGED <<nonCallVars, arg, log>>

\* the row selected by _build_json_query_for_cnpj (WHERE e.cnpj_basico = ...
\* AND e.cnpj_ordem = ... AND e.cnpj_dv = ...): the document
ProjectForCnpj ==
    /\ op = "none"
    /\ ~IsNull(arg["e.cnpj_ordem"])
    /\ ~IsNull(arg["e.cnpj_dv"])
    /\ op' = "cnpj"
    /\ ret' = [status |-> "ok", val |-> <<get_json_struct_fields(arg)>>]
    /\ UNCHANGED <<nonCallVars, arg, log>>

NextProject ==
    \/ ProjectForPrefix
    \/ ProjectForCnpj

SpecProject == InitProject /\ [][NextProject]_vars

(***************************************************************************)
(* The sampler of the integrity test (IntegrityTester._pick_sample_async)   *)
(***************************************************************************)
\* most distinct identifiers of the establishment table given to the sampler
MaxEstab == 4
\* largest requested sample size
MaxTotal == 3
\* smallest LIMIT of the fill query: max(remaining * 2, 8)
MinDraw == 8

Max(a, b) == IF a >= b THEN a ELSE b

\* the tables the sampler reads: the identifiers 1 .. n of estabelecimento,
\* those with a row in simples, those with a row in socio
Corpora ==
    UNION { { [n |-> n, simples |-> S, socio |-> P] :
                S \in SUBSET (1 .. n), P \in SUBSET (1 .. n) } : n \in 0 .. MaxEstab }

\* "... INNER JOIN t ... ORDER BY random() LIMIT 1" then "if result and
\* result[0]: sample_set.add": the sets sample_set can be afterwards (the
\* query is taken to succeed)
PickOne(sample, joined) ==
    IF joined = {} THEN {sample} ELSE { sample \cup {e} : e \in joined }

\* "SELECT DISTINCT ... ORDER BY random() LIMIT max(remaining * 2, 8)": the
\* sets of identifiers the fill query can return
FillResults(n, remaining) ==
    { D \in SUBSET (1 .. n) : Cardinality(D) = Min(n, Max(remaining * 2, MinDraw)) }

\* (mutant) the loop over the rows has no break
FillAdd_NoBreak(sample, D, total) == { sample \cup D }

\* the loop over the rows of the fill query: each is added, and the loop is
\* left as soon as the set has total elements; the rows come in any order
FillAdd(sample, D, total) ==
    IF Cardinality(D \ sample) < total - Cardinality(sample)
    THEN { sample \cup D }
    ELSE { sample \cup X :
             X \in { Y \in SUBSET (D \ sample) :
                       Cardinality(Y) = total - Cardinality(sample) } }

\* list(sample_set)[:total]: the first total elements in the set's order
SliceTotal(sample, total) ==
    { R \in SUBSET sample : Cardinality(R) = Min(total, Cardinality(sample)) }

\* _pick_sample_async(conn, total) is called
InitSample ==
    /\ IdleProgram
    /\ op = "none"
    /\ \E c \in Corpora, total \in 0 .. MaxTotal :
           arg = [total |-> total, n |-> c.n, simples |-> c.simples, socio |-> c.socio]
    /\ ret = [status |-> "running", val |-> <<{}>>]
    /\ log = <<>>

\* "At least 1 with SIMPLES"
PickSimples ==
    /\ op = "none"
    /\ op' = "simples"
    /\ \E s \in PickOne(ret.val[1], arg.simples) :
           ret' = [ret EXCEPT !.val = <<s>>]
    /\ UNCHANGED <<nonCallVars, arg, log>>

\* "At least 1 with SOCIO"
PickSocio ==
    /\ op = "simples"
    /\ op' = "fill"
    /\ \E s \in PickOne(ret.val[1], arg.socio) :
           ret' = [ret EXCEPT !.val = <<s>>]
    /\ UNCHANGED <<nonCallVars, arg, log>>

\* one turn of "while len(sample_set) < total": the fill query and the loop
\* over its rows; an empty result leaves the loop. With fewer identifiers in
\* the table than total the turn is repeated for ever.
FillTurn ==
    /\ op = "fill"
    /\ Cardinality(ret.val[1]) < arg.total
    /\ \E D \in FillResults(arg.n, arg.total - Cardinality(ret.val[1])) :
         \E s \in FillAdd(ret.val[1], D, arg.total) :
           /\ ret' = [ret EXCEPT !.val = <<s>>]
           /\ op' = IF D = {} THEN "filled" ELSE "fill"
    /\ UNCHANGED <<nonCallVars, arg, log>>

\* the loop is over: return list(sample_set)[:total]
SampleReturn ==
    /\ \/ op = "filled"
       \/ op = "fill" /\ Cardinality(ret.val[1]) >= arg.total
    /\ op' = "returned"
    /\ \E R \in SliceTotal(ret.val[1], arg.total) :
           ret' = [status |-> "ok", val |-> <<R>>]
    /\ UNCHANGED <<nonCallVars, arg, log>>

NextSample ==
    \/ PickSimples
    \/ PickSocio
    \/ FillTurn
    \/ SampleReturn

SpecSample == InitSample /\ [][NextSample]_vars

\* the sampler runs on: its queries return and its loop takes its next turn
SpecSampleFair == SpecSample /\ WF_vars(NextSample)

(***************************************************************************)
(* The integrity run (IntegrityTester.run_async)                           *)
(***************************************************************************)
\* largest sample compared by the integrity run
MaxSample == 3

\* hashes of canonical documents
Hashes == {"h1", "h2"}
\* what rendering an identifier locally can give: export_single_cnpj_async
\* raises, leaves no file, or the file hashes to h
LocalOutcomes == {"raise", "missing"} \cup Hashes
\* what fetching its remote object can give: download_file_async raises,
\* returns False or leaves no file, or the file hashes to h
RemoteOutcomes == {"raise", "fail"} \cup Hashes

\* the tuple appended to results for one identifier
ItemResult(cnpj, local, fetched) ==
    IF local \in Hashes /\ fetched \in Hashes
    THEN [cnpj |-> cnpj, local_hash |-> local, remote_hash |-> fetched,
          equal |-> (local = fetched)]
    ELSE [cnpj |-> cnpj, local_hash |-> "-", remote_hash |-> "-", equal |-> FALSE]

\* sum(1 for r in results if r[3])
SuccessCount(rs) == Cardinality({ i \in 1 .. Len(rs) : rs[i].equal })

\* (mutant) one identifier with equal hashes is enough
OverallPass_Any(rs) == SuccessCount(rs) > 0

\* "if success_count == len(results)": the green report
OverallPass(rs) == SuccessCount(rs) = Len(rs)

\* run_async has picked its sample: the identifiers 1 .. k in the order of
\* the list
InitRun ==
    /\ IdleProgram
    /\ op = "none"
    /\ arg \in { [i \in 1 .. k |-> i] : k \in 0 .. MaxSample }
    /\ ret = [status |-> "running", val |-> <<>>]
    /\ log = <<>>

\* "if not sample": the run ends without a report; else the loop starts
RunStart ==
    /\ op = "none"
    /\ IF arg = <<>>
       THEN /\ op' = "returned"
            /\ ret' = [ret EXCEPT !.status = "no_sample"]
       ELSE /\ op' = "local"
            /\ UNCHANGED ret
    /\ UNCHANGED <<nonCallVars, arg, log>>

\* the next identifier is rendered locally and hashed; when that raises or
\* leaves no file the except clause records the failure and the loop goes on
\* to the following identifier
RunLocal ==
    /\ op = "local"
    /\ \E local \in LocalOutcomes :
         LET cnpj == arg[Len(ret.val) + 1]
         IN  IF local \in Hashes
             THEN /\ log' = Append(log, [cnpj |-> cnpj, local |-> local, remote |-> "none"])
                  /\ op' = "remote"
                  /\ UNCHANGED ret
             ELSE /\ log' = Append(log, [cnpj |-> cnpj, local |-> local, remote |-> "none"])
                  /\ ret' = [ret EXCEPT !.val = Append(@, ItemResult(cnpj, local, "none"))]
                  /\ op' = IF Len(ret'.val) = Len(arg) THEN "report" ELSE "local"
    /\ UNCHANGED <<nonCallVars, arg>>

\* its remote object is fetched and hashed, the hashes are compared and the
\* result is recorded; a failed fetch is recorded by the except clause
RunRemote ==
    /\ op = "remote"
    /\ \E remote_hash \in RemoteOutcomes :
         LET this == log[Len(log)]
         IN  /\ log' = [log EXCEPT ![Len(log)].remote = remote_hash]
             /\ ret' = [ret EXCEPT !.val =
                            Append(@, ItemResult(this.cnpj, this.local, remote_hash))]
             /\ op' = IF Len(ret'.val) = Len(arg) THEN "report" ELSE "local"
    /\ UNCHANGED <<nonCallVars, arg>>

\* the report: one line per result, then the overall line
RunReport ==
    /\ op = "report"
    /\ op' = "returned"
    /\ ret' = [ret EXCEPT !.status = IF OverallPass(ret.val) THEN "pass" ELSE "fail"]
    /\ UNCHANGED <<nonCallVars, arg, log>>

NextRun ==
    \/ RunStart
    \/ RunLocal
    \/ RunRemote
    \/ RunReport

SpecRun == InitRun /\ [][NextRun]_vars

(***************************************************************************)
(* Configuration loading (AppConfig.load)                                  *)
(***************************************************************************)
\* the keys a section of config.json can hold, as the words of their
\* PascalCase spelling; Foo is a key the program does not know
PathsKeys ==
    { <<"Data", "Dir">>, <<"Parquet", "Dir">>, <<"Output", "Dir">>,
      <<"Download", "Dir">>, <<"Hash", "Cache", "Dir">>, <<"Foo">> }
RcloneKeys ==
    { <<"Remote", "Base">>, <<"Transfers">>, <<"Max", "Concurrent", "Uploads">>,
      <<"Foo">> }
DuckDbKeys == { <<"Threads", "Pragma">>, <<"Foo">> }
NdjsonKeys == { <<"Max", "Parallel", "Processing">>, <<"Foo">> }
DownloaderKeys == { <<"Parallel", "Downloads">> }

\* the fields of the dataclasses
PathsFields ==
    {"data_dir", "parquet_dir", "output_dir", "download_dir", "hash_cache_dir"}
RcloneFields == {"remote_base", "transfers", "max_concurrent_uploads"}
DuckDbFields == {"threads_pragma"}
NdjsonFields == {"max_parallel_processing"}
DownloaderFields == {"parallel_downloads"}

\* str.lower() on one word of a key
LowerWord(w) ==
    CASE w = "Data" -> "data" [] w = "Dir" -> "dir" [] w = "Parquet" -> "parquet"
      [] w = "Output" -> "output" [] w = "Download" -> "download"
      [] w = "Hash" -> "hash" [] w = "Cache" -> "cache" [] w = "Foo" -> "foo"
      [] w = "Remote" -> "remote" [] w = "Base" -> "base"
      [] w = "Transfers" -> "transfers" [] w = "Max" -> "max"
      [] w = "Concurrent" -> "concurrent" [] w = "Uploads" -> "uploads"
      [] w = "Threads" -> "threads" [] w = "Pragma" -> "pragma"
      [] w = "Parallel" -> "parallel" [] w = "Processing" -> "processing"
      [] w = "Downloads" -> "downloads"

\* k.lower().replace(word, "_" + word): the words are run together, and only
\* the occurrences of word get an underscore in front
RECURSIVE LowerReplace(_, _)
LowerReplace(key, word) ==
    IF key = <<>> THEN ""
    ELSE (IF LowerWord(key[1]) = word THEN "_" \o word ELSE LowerWord(key[1]))
             \o LowerReplace(Tail(key), word)

\* the words run together without a separator: the name data.get(...).get
\* looks up
RECURSIVE Pascal(_)
Pascal(key) == IF key = <<>> THEN "" ELSE key[1] \o Pascal(Tail(key))

\* PathsConfig(**{...}) and RcloneSettings(**{...}): a keyword that is no
\* field raises TypeError
Kwargs(keys, word) == { LowerReplace(k, word) : k \in keys }
FromKwargs(fields, kwargs) ==
    IF kwargs \subseteq fields
    THEN [status |-> "ok",
          val |-> [f \in fields |-> IF f \in kwargs THEN "file" ELSE "default"]]
    ELSE [status |-> "raise", val |-> [f \in fields |-> "default"]]

\* a section built from data.get(section, {}).get(name, default), one call
\* per field
FromGet(fields, names, keys) ==
    [f \in fields |->
        IF \E k \in keys : Pascal(k) = names[f] THEN "file" ELSE "default"]

\* the configuration with every default
DefaultConfig ==
    [paths |-> [f \in PathsFields |-> "default"],
     rclone |-> [f \in RcloneFields |-> "default"],
     duckdb |-> [f \in DuckDbFields |-> "default"],
     ndjson |-> [f \in NdjsonFields |-> "default"],
     downloader |-> [f \in DownloaderFields |-> "default"]]

\* AppConfig.load on a file: missing, not JSON, or the keys of its sections
load(file) ==
    IF file.state # "json" THEN DefaultConfig
    ELSE LET paths == FromKwargs(PathsFields, Kwargs(file.Paths, "dir"))
             rclone == FromKwargs(RcloneFields, Kwargs(file.Rclone, "base"))
         IN  IF paths.status = "raise" \/ rclone.status = "raise"
             THEN DefaultConfig
             ELSE [paths |-> paths.val,
                   rclone |-> rclone.val,
                   duckdb |-> FromGet(DuckDbFields,
                                 [f \in DuckDbFields |-> "ThreadsPragma"], file.DuckDb),
                   ndjson |-> FromGet(NdjsonFields,
                                 [f \in NdjsonFields |-> "MaxParallelProcessing"],
                                 file.Ndjson),
                   downloader |-> FromGet(DownloaderFields,
                                 [f \in DownloaderFields |-> "ParallelDownloads"],
                                 file.Downloader)]

NoKeys == [Paths |-> {}, Rclone |-> {}, DuckDb |-> {}, Ndjson |-> {}, Downloader |-> {}]

\* config.json: absent, malformed, or an object with some keys in its
\* sections
InitConfig ==
    /\ IdleProgram
    /\ op = "none"
    /\ \/ \E state \in {"missing", "malformed"} :
             arg = NoKeys @@ [state |-> state]
       \/ \E P \in SUBSET PathsKeys, R \in SUBSET RcloneKeys, D \in SUBSET DuckDbKeys,
             N \in SUBSET NdjsonKeys, W \in SUBSET DownloaderKeys :
             arg = [state |-> "json", Paths |-> P, Rclone |-> R, DuckDb |-> D,
                    Ndjson |-> N, Downloader |-> W]
    /\ ret = NoRet
    /\ log = <<>>

\* AppConfig.load(path)
CallLoad ==
    /\ op = "none"
    /\ op' = "loaded"
    /\ ret' = [status |-> "ok", val |-> <<load(arg)>>]
    /\ UNCHANGED <<nonCallVars, arg, log>>

NextConfig == CallLoad

SpecConfig == InitConfig /\ [][NextConfig]_vars

(***************************************************************************)
(* The hash catalog called on its own (HashCacheManager)                   *)
(***************************************************************************)
\* longest list of items written out item by item
MaxList == 2

\* identifiers and hashes of the catalog rows and of the items
CatalogIds == {"a", "b"}
CatalogHashes == {"h1", "h2"}
Catalogs ==
    UNION { [S -> CatalogHashes] : S \in SUBSET CatalogIds }
CatalogItems ==
    { [cnpj |-> c, json |-> h, hash |-> h] : c \in CatalogIds, h \in CatalogHashes }

\* the lists given to the catalog: the short ones, and the short ones after a
\* run of one item that ends just before or at the end of the first probe
\* chunk
ItemLists ==
    SeqUpTo(CatalogItems, MaxList) \cup
    { Rep(it, n) \o tail :
        it \in CatalogItems, n \in {check_batch_size - 1, check_batch_size},
        tail \in SeqUpTo(CatalogItems, MaxList) }


\* everything but the catalog, its lock and the call
nonCatalogCallVars ==
    <<cfg, estabelecimento, dlVars, hcmInitialized, ingestorInit, poolVars,
      fileVars, mainVars, remoteZip, remote, sem, pc, keep, uploadResult, hist,
      engineVars>>

\* an open catalog (initialize_database has returned) with some rows, and a
\* caller with a list of items
InitCatalog ==
    /\ NoDownload
    /\ cfg = [max_parallel_processing |-> 1, max_concurrent_uploads |-> 1,
              cpu_count |-> 1]
    /\ estabelecimento = {}
    /\ \E rows \in Catalogs : dbFile = FileOf(rows)
    /\ remoteZip = NoFile
    /\ remote = {}
    /\ hcmInitialized = TRUE
    /\ hcmLock = NoOne
    /\ pending = <<>>
    /\ ingestorInit = TRUE
    /\ connection_lock = NoOne
    /\ query = [c \in Callers |-> "none"]
    /\ sem = 0
    /\ uploadSem = cfg.max_concurrent_uploads
    /\ subproc = [c \in Callers |-> "none"]
    /\ pc = [p \in Tasks |-> "idle"]
    /\ keep = [p \in Tasks |-> <<>>]
    /\ uploadResult = [p \in Tasks |-> "none"]
    /\ published = "no"
    /\ testerLeft = 0
    /\ exitCode = "none"
    /\ ndjson = [p \in Tasks |-> NoNdjson]
    /\ scratch = [p \in Tasks |-> NoScratch]
    /\ mainPc = "exited"
    /\ run = 1
    /\ hist = [emptyAtOpen |-> FALSE, rowsAtOpen |-> dbFile.rows,
               prevAllOk |-> FALSE, stageRaised |-> FALSE,
               filesAtStart |-> files]
    /\ op = "none"
    /\ arg \in ItemLists
    /\ ret = NoRet
    /\ log = <<>>

\* get_items_to_process_async(arg), consumed to its end: the lock is taken,
\* the chunks are probed, the lock is given back
CatalogDiff ==
    /\ op = "none"
    /\ hcmLock = NoOne
    /\ op' = "diffed"
    /\ ret' = [status |-> "ok",
               val |-> <<GetItemsToProcess(ApplyInserts(dbFile.rows, pending),
                                           arg)>>]
    /\ UNCHANGED <<nonCatalogCallVars, dbFile, pending, hcmLock, arg, log>>

\* add_async(cnpj, hash) of the first item, called on its own
CatalogAdd ==
    /\ op = "none"
    /\ arg # <<>>
    /\ AddAsync(Main, Head(arg).cnpj, Head(arg).hash)
    /\ op' = "added"
    /\ ret' = [status |-> "ok", val |-> <<>>]
    /\ UNCHANGED <<nonCatalogCallVars, arg, log>>

\* add_batch_async(arg) is entered: "async with cls._lock". With no item the
\* loop is skipped, the batch is committed and the lock given back; else the
\* loop awaits add_async for the first item with the lock held. add_async
\* starts with "await cls._lock.acquire()" on the same lock, which is not
\* reentrant: that step is never enabled and the call has no further action.
CatalogAddBatch ==
    /\ op = "none"
    /\ hcmLock = NoOne
    /\ IF arg = <<>>
       THEN /\ op' = "returned"
            /\ ret' = [status |-> "ok", val |-> <<>>]
            /\ CommitBatch
            /\ UNCHANGED hcmLock
       ELSE /\ op' = "add_async"
            /\ hcmLock' = Main
            /\ UNCHANGED <<ret, dbFile, pending>>
    /\ UNCHANGED <<nonCatalogCallVars, arg, log>>

\* upload_database_async between taking and giving back the lock: the file
\* operations in the order of the code, before the transfer of the archive
upload_database_async_CopyFirst == <<"commit", "copy", "close", "zip">>
upload_database_async == <<"commit", "close", "copy", "zip">>

\* what a publish step leaves alone besides the catalog and the remote
\* archive
nonPublishVars ==
    <<cfg, estabelecimento, dlVars, ingestorInit, poolVars, fileVars, mainVars,
      remote, sem, pc, keep, uploadResult, hist, engineVars>>

\* what the log keeps of a publish step: the step and the catalog as the
\* step found it
StepRecord(step) ==
    [step |-> step, open |-> hcmInitialized, pending |-> pending,
     rows |-> dbFile.rows, lock |-> hcmLock]

\* upload_database_async is called, on a fresh catalog or after add_async
\* calls: "async with cls._lock"
PublishStart ==
    /\ op \in {"none", "added"}
    /\ hcmLock = NoOne
    /\ hcmLock' = Main
    /\ op' = "publish"
    /\ UNCHANGED <<nonPublishVars, dbFile, pending, hcmInitialized, remoteZip,
                   arg, ret, log>>

\* the next file operation of upload_database_async: _commit_batch_async,
\* close_connections, shutil.copy2 of the catalog file, or the packaging of
\* the copy
PublishStep ==
    /\ op = "publish"
    /\ Len(log) < Len(upload_database_async)
    /\ LET step == upload_database_async[Len(log) + 1]
       IN  /\ log' = Append(log, StepRecord(step))
           /\ IF step = "commit"
              THEN CommitBatch
              ELSE UNCHANGED <<dbFile, pending>>
           /\ hcmInitialized' = IF step = "close" THEN FALSE
                                ELSE hcmInitialized
    /\ UNCHANGED <<nonPublishVars, hcmLock, remoteZip, op, arg, ret>>

\* the rows of the copy that was packaged
PackagedRows ==
    LET i == CHOOSE i \in DOMAIN log : log[i].step = "copy" IN log[i].rows

\* RcloneClient.upload_file_async of the archive and the return: the result
\* of the transfer is the result of the call, the scratch copy is removed,
\* the lock is given back
PublishUpload ==
    /\ op = "publish"
    /\ Len(log) = Len(upload_database_async)
    /\ \E ok \in BOOLEAN :
         /\ remoteZip' = IF ok THEN FileOf(PackagedRows) ELSE remoteZip
         /\ ret' = [status |-> "returned", val |-> <<ok>>]
    /\ log' = Append(log, StepRecord("upload"))
    /\ hcmLock' = NoOne
    /\ op' = "published"
    /\ UNCHANGED <<nonPublishVars, dbFile, pending, hcmInitialized, arg>>

NextCatalog ==
    \/ CatalogDiff
    \/ CatalogAdd
    \/ CatalogAddBatch
    \/ PublishStart
    \/ PublishStep
    \/ PublishUpload

\* the event loop runs every coroutine that can go on
SpecCatalog == InitCatalog /\ [][NextCatalog]_vars /\ WF_vars(NextCatalog)

(***************************************************************************)
(* The engine session of one ParquetIngestor under its callers             *)
(***************************************************************************)
\* the engine calls the coroutine of a command has still to make on its
\* ingestor, in order: "views" is _load_parquet_tables, "gather" the export
\* loop (its tasks make the calls), "stream" one prefix of export_jsons_to_zip
ZipScript == <<"views">> \o [i \in 1 .. NumPrefixes |-> "stream"]
PipelineScript == <<"views", "gather">> \o ZipScript \o <<"views", "count">>
SingleScript == <<"views", "projection">>
RECURSIVE TestScript(_)
TestScript(n) == IF n = 0 THEN <<>> ELSE SingleScript \o TestScript(n - 1)

EngineScripts ==
    {PipelineScript, ZipScript, SingleScript} \cup { TestScript(n) : n \in 1 .. MaxSample }

\* everything but the engine session, its callers' positions and the call
nonEngineVars ==
    <<cfg, estabelecimento, dlVars, catalogVars, poolVars, fileVars, mainVars,
      remoteZip, remote, keep, uploadResult, hist, op, ret>>

\* a command has created its ingestor: duckdb.connect and asyncio.Lock()
InitEngine ==
    /\ NoDownload
    /\ cfg \in Configs
    /\ estabelecimento = {}
    /\ dbFile = NoFile
    /\ remoteZip = NoFile
    /\ remote = {}
    /\ FreshProcess
    /\ ndjson = [p \in Tasks |-> NoNdjson]
    /\ scratch = [p \in Tasks |-> NoScratch]
    /\ mainPc = "exited"
    /\ run = 1
    /\ hist = [emptyAtOpen |-> FALSE, rowsAtOpen |-> EmptyCatalog,
               prevAllOk |-> FALSE, stageRaised |-> FALSE,
               filesAtStart |-> files]
    /\ op = "none"
    /\ arg \in EngineScripts
    /\ ret = NoRet
    /\ log = <<>>

\* connection.execute(...) is entered by caller c: the log keeps whether c
\* holds the engine mutex at that moment
Execute(c, kind) ==
    /\ query[c] = "none"
    /\ query' = [query EXCEPT ![c] = kind]
    /\ log' = Append(log, [by |-> c, kind |-> kind,
                           locked |-> connection_lock = c])

\* the command's coroutine runs its next query: _load_parquet_tables (line
\* 256), export_single_cnpj_async (358), _export_prefix_to_zip_directly
\* (451), generate_and_upload_final_info_json_async (399); none of them
\* takes the engine mutex
MainQueryStart ==
    /\ arg # <<>>
    /\ Head(arg) # "gather"
    /\ Execute(Main, Head(arg))
    /\ UNCHANGED <<nonEngineVars, connection_lock, pc, sem, arg>>

\* the query of the command's coroutine returns
MainQueryEnd ==
    /\ query[Main] # "none"
    /\ query' = [query EXCEPT ![Main] = "none"]
    /\ arg' = Tail(arg)
    /\ UNCHANGED <<nonEngineVars, connection_lock, pc, sem, log>>

\* _export_to_ndjson_partitioned creates the semaphore and the tasks
EngineGatherStart ==
    /\ arg # <<>>
    /\ Head(arg) = "gather"
    /\ \A p \in Tasks : pc[p] = "idle"
    /\ sem' = MaxParallel(cfg)
    /\ pc' = [p \in Tasks |-> "wait_sem"]
    /\ UNCHANGED <<nonEngineVars, engineVars, arg, log>>

\* "async with sem" of process_prefix
EngineTaskAcquire(p) ==
    /\ pc[p] = "wait_sem"
    /\ sem > 0
    /\ sem' = sem - 1
    /\ pc' = [pc EXCEPT ![p] = "export"]
    /\ UNCHANGED <<nonEngineVars, engineVars, arg, log>>

\* (mutant) the COPY does not wait for the engine mutex
CopyAcquire_NoWait(p) ==
    /\ pc[p] = "export"
    /\ connection_lock' = p
    /\ pc' = [pc EXCEPT ![p] = "copy"]
    /\ UNCHANGED <<nonEngineVars, query, sem, arg, log>>

\* _export_single_prefix, line 327: "async with self._connection_lock"
CopyAcquire(p) ==
    /\ pc[p] = "export"
    /\ connection_lock = NoOne
    /\ connection_lock' = p
    /\ pc' = [pc EXCEPT ![p] = "copy"]
    /\ UNCHANGED <<nonEngineVars, query, sem, arg, log>>

\* line 328: the COPY of the prefix is executed
CopyExecute(p) ==
    /\ pc[p] = "copy"
    /\ Execute(p, "copy")
    /\ UNCHANGED <<nonEngineVars, connection_lock, pc, sem, arg>>

\* the COPY returns, the mutex is given back; the rest of the task makes no
\* engine call, and the permit is given back when the task ends
CopyReturn(p) ==
    /\ query[p] = "copy"
    /\ query' = [query EXCEPT ![p] = "none"]
    /\ connection_lock' = NoOne
    /\ pc' = [pc EXCEPT ![p] = "done"]
    /\ sem' = sem + 1
    /\ UNCHANGED <<nonEngineVars, arg, log>>

\* asyncio.gather returns
EngineGatherEnd ==
    /\ arg # <<>>
    /\ Head(arg) = "gather"
    /\ \A p \in Tasks : pc[p] = "done"
    /\ arg' = Tail(arg)
    /\ UNCHANGED <<nonEngineVars, engineVars, pc, sem, log>>

NextEngine ==
    \/ MainQueryStart
    \/ MainQueryEnd
    \/ EngineGatherStart
    \/ EngineGatherEnd
    \/ \E p \in Tasks :
         \/ EngineTaskAcquire(p)
         \/ CopyAcquire(p)
         \/ CopyExecute(p)
         \/ CopyReturn(p)

SpecEngine == InitEngine /\ [][NextEngine]_vars

(***************************************************************************)
(* The result of a transfer operation (RcloneClient)                       *)
(***************************************************************************)
\* most stderr lines of one subprocess, and its largest exit code
MaxLines == 2
MaxExit == 2

\* stderr lines: two that contain ERROR in some case, one that does not
StderrLines == {"ERROR : x: failed", "error reading", "NOTICE: x"}

\* "ERROR" in line_str.upper()
IsErrorLine(line) == line \in {"ERROR : x: failed", "error reading"}

\* what one call meets: whether create_subprocess_exec succeeds, the exit
\* code, the stderr lines, and whether the local path exists on return
Outcomes ==
    [kind : {"copy_dir", "copy_file", "fetch_file"},
     spawn : BOOLEAN,
     code : 0 .. MaxExit,
     stderr : SeqUpTo(StderrLines, MaxLines),
     exists : BOOLEAN]

\* (mutant) an ERROR line on stderr makes the upload fail
upload_folder_async_Stderr(o) ==
    o.code = 0 /\ \A i \in DOMAIN o.stderr : ~IsErrorLine(o.stderr[i])

\* upload_folder_async, line 107: ok = process.returncode == 0
upload_folder_async(o) == o.code = 0

\* upload_file_async, line 171
upload_file_async(o) == o.code = 0

\* copy_to_async, line 141: returncode == 0 and os.path.exists(local)
copy_to_async(o) == o.code = 0 /\ o.exists

\* the value the operation returns once its subprocess has exited
TransferResult(o) ==
    CASE o.kind = "copy_dir" -> upload_folder_async(o)
      [] o.kind = "copy_file" -> upload_file_async(o)
      [] OTHER -> copy_to_async(o)

InitTransfer ==
    /\ IdleProgram
    /\ op = "none"
    /\ arg \in Outcomes
    /\ ret = NoRet
    /\ log = <<>>

\* create_subprocess_exec: the exception of a failed spawn is caught by the
\* "except Exception" of the operation, shown, and False is returned
TransferSpawn ==
    /\ op = "none"
    /\ IF arg.spawn
       THEN /\ op' = "running"
            /\ UNCHANGED ret
       ELSE /\ op' = "returned"
            /\ ret' = [status |-> "returned", val |-> <<FALSE>>]
    /\ UNCHANGED <<nonCallVars, arg, log>>

\* one stderr line is read (read_errors, or communicate): the log keeps it
\* with whether it is shown at once as an rclone error (copy_dir only)
TransferStderr ==
    /\ op = "running"
    /\ Len(log) < Len(arg.stderr)
    /\ LET line == arg.stderr[Len(log) + 1]
       IN  log' = Append(log, [line |-> line,
                               shown |-> arg.kind = "copy_dir" /\ IsErrorLine(line)])
    /\ UNCHANGED <<nonCallVars, op, arg, ret>>

\* the streams are at end of file and the subprocess has exited
TransferExit ==
    /\ op = "running"
    /\ Len(log) = Len(arg.stderr)
    /\ op' = "returned"
    /\ ret' = [status |-> "returned", val |-> <<TransferResult(arg)>>]
    /\ UNCHANGED <<nonCallVars, arg, log>>

NextTransfer ==
    \/ TransferSpawn
    \/ TransferStderr
    \/ TransferExit

SpecTransfer == InitTransfer /\ [][NextTransfer]_vars

(***************************************************************************)
(* Exports on one ParquetIngestor instance                                 *)
(***************************************************************************)
\* calls of export_and_upload_to_storage on the instance
MaxExports == 2

\* the catalog file on disk or the remote archive: absent, or with rows
CatalogFiles == {NoFile} \cup { FileOf(rows) : rows \in Catalogs }

nonInstanceVars ==
    <<cfg, estabelecimento, dlVars, fileVars, mainPc, published, testerLeft,
      exitCode, remote, sem, pc, keep, uploadResult, engineVars>>

\* a new process with a new ParquetIngestor: nothing opened, a catalog
\* directory with or without hashes.db, a remote with or without hashes.zip
InitInstance ==
    /\ NoDownload
    /\ cfg = [max_parallel_processing |-> 1, max_concurrent_uploads |-> 1,
              cpu_count |-> 1]
    /\ estabelecimento = {}
    /\ dbFile \in CatalogFiles
    /\ remoteZip \in CatalogFiles
    /\ remote = {}
    /\ FreshProcess
    /\ ndjson = [p \in Tasks |-> NoNdjson]
    /\ scratch = [p \in Tasks |-> NoScratch]
    /\ mainPc = "exited"
    /\ run = 1
    /\ hist = [emptyAtOpen |-> FALSE, rowsAtOpen |-> EmptyCatalog,
               prevAllOk |-> FALSE, stageRaised |-> FALSE,
               filesAtStart |-> files]
    /\ op = "none"
    /\ arg \in SeqUpTo(CatalogItems, 1)
    /\ ret = NoRet
    /\ log = <<>>

\* what the log keeps of a call of initialize_database: whether the fetch
\* of hashes.zip was attempted and how it ended, and the catalog before and
\* after the call
OpenRecord(fetch, before, wasOpen) ==
    [ev |-> "open", fetch |-> fetch, before |-> before, wasOpen |-> wasOpen,
     remote |-> remoteZip, rows |-> dbFile'.rows, open |-> hcmInitialized']

\* sqlite3.connect, CREATE TABLE IF NOT EXISTS, pragmas, _initialized = True
ConnectDb(rows) ==
    /\ dbFile' = FileOf(rows)
    /\ hcmInitialized' = TRUE
    /\ hist' = [hist EXCEPT !.emptyAtOpen = (rows = EmptyCatalog),
                            !.rowsAtOpen = rows]

\* initialize_database up to its return or to the spawn of the fetch: an
\* initialized manager returns at once; a local hashes.db is used as it is;
\* else hashes.zip is fetched
InitializeDatabase_AlwaysFetch(after) ==
    IF hcmInitialized
    THEN /\ op' = after
         /\ UNCHANGED <<dbFile, hcmInitialized, hist, poolVars>>
         /\ log' = Append(log, OpenRecord("none", dbFile, TRUE))
    ELSE /\ CopyToStart(Main)
         /\ op' = "fetch"
         /\ UNCHANGED <<dbFile, hcmInitialized, hist, log>>

InitializeDatabase(after) ==
    IF hcmInitialized
    THEN /\ op' = after
         /\ UNCHANGED <<dbFile, hcmInitialized, hist, poolVars>>
         /\ log' = Append(log, OpenRecord("none", dbFile, TRUE))
    ELSE IF dbFile.exists
    THEN /\ ConnectDb(dbFile.rows)
         /\ op' = after
         /\ log' = Append(log, OpenRecord("none", dbFile, FALSE))
         /\ UNCHANGED poolVars
    ELSE /\ CopyToStart(Main)
         /\ op' = "fetch"
         /\ UNCHANGED <<dbFile, hcmInitialized, hist, log>>

\* export_and_upload_to_storage is called: _ensure_hash_cache_initialized
\* opens the catalog unless the flag of the instance is set
ExportOpen ==
    /\ op \in {"none", "exported"}
    /\ run <= MaxExports
    /\ IF ingestorInit
       THEN /\ op' = "opened"
            /\ UNCHANGED <<dbFile, hcmInitialized, hist, poolVars, log,
                           ingestorInit>>
       ELSE /\ InitializeDatabase("opened")
            /\ ingestorInit' = (op' = "opened")
    /\ UNCHANGED <<nonInstanceVars, hcmLock, pending, remoteZip, run, arg, ret>>

\* the fetch of hashes.zip returns: an archive that came is unpacked to
\* hashes.db, else the connect creates an empty file; the flag is set
ExportFetchEnd ==
    /\ op = "fetch"
    /\ CopyToEnd(Main)
    /\ \E ok \in BOOLEAN :
         /\ ok => remoteZip.exists
         /\ ConnectDb(IF ok THEN remoteZip.rows ELSE EmptyCatalog)
         /\ log' = Append(log, OpenRecord(IF ok THEN "ok" ELSE "fail",
                                          dbFile, FALSE))
    /\ ingestorInit' = TRUE
    /\ op' = "opened"
    /\ UNCHANGED <<nonInstanceVars, hcmLock, pending, remoteZip, run, arg, ret>>

\* initialize_database is called once more during the export, by another
\* caller than the instance
OpenAgain ==
    /\ op = "opened"
    /\ InitializeDatabase("reopened")
    /\ UNCHANGED <<nonInstanceVars, hcmLock, pending, remoteZip, run, arg, ret,
                   ingestorInit>>

\* the first get_items_to_process_async of the export, for the items of a
\* prefix: it raises on a manager that is not initialized
ExportDiff ==
    /\ op \in {"opened", "reopened"}
    /\ hcmLock = NoOne
    /\ IF ~hcmInitialized
       THEN /\ op' = "diff_raised"
            /\ ret' = [status |-> "raised", val |-> <<>>]
       ELSE /\ op' = "diffed"
            /\ ret' = [status |-> "ok",
                       val |-> <<GetItemsToProcess(
                                     ApplyInserts(dbFile.rows, pending), arg)>>]
    /\ log' = Append(log, [ev |-> "diff", open |-> hcmInitialized])
    /\ UNCHANGED <<nonInstanceVars, catalogVars, poolVars, remoteZip, hist, run,
                   arg>>

\* the upload of the changed items returns: after a success add_batch_async
\* is entered and takes the lock, after a failure the task raises
ExportUpload ==
    /\ op = "diffed"
    /\ ret.val[1] # <<>>
    /\ hcmLock = NoOne
    /\ \E ok \in BOOLEAN :
         /\ op' = IF ok THEN "add_batch" ELSE "upload_failed"
         /\ hcmLock' = IF ok THEN Main ELSE NoOne
    /\ log' = Append(log, [ev |-> "upload", open |-> hcmInitialized])
    /\ UNCHANGED <<nonInstanceVars, dbFile, hcmInitialized, ingestorInit,
                   pending, poolVars, remoteZip, hist, run, arg, ret>>

\* the task has ended (nothing changed, the diff raised or the upload
\* failed), the gather returns and upload_database_async runs: the manager
\* is closed, the flag of the instance stays
ExportPublish ==
    /\ \/ op \in {"diff_raised", "upload_failed"}
       \/ op = "diffed" /\ ret.val[1] = <<>>
    /\ hcmLock = NoOne
    /\ CommitBatch
    /\ hcmInitialized' = FALSE
    /\ \E ok \in BOOLEAN :
         remoteZip' = IF ok THEN FileOf(dbFile'.rows) ELSE remoteZip
    /\ op' = "exported"
    /\ run' = run + 1
    /\ log' = Append(log, [ev |-> "publish", open |-> hcmInitialized])
    /\ UNCHANGED <<nonInstanceVars, hcmLock, ingestorInit, poolVars, hist, arg,
                   ret>>

NextInstance ==
    \/ ExportOpen
    \/ ExportFetchEnd
    \/ OpenAgain
    \/ ExportDiff
    \/ ExportUpload
    \/ ExportPublish

SpecInstance == InitInstance /\ [][NextInstance]_vars

(***************************************************************************)
(* NDJSON ingest (NdjsonProcessor._read_and_process_ndjson)                *)
(***************************************************************************)
\* most lines of an NDJSON file given to the ingest
MaxFileLines == 2

KeyCnpj == <<"cnpj">>
KeyNome == <<"nome">>
KeyJsonOutput == <<"json_output">>

\* what a line may hold: documents with a cnpj (a string leaf with runs of
\* whitespace, a number json.dumps writes differently, a repeated cnpj key,
\* a cnpj with a blank), documents without a usable cnpj, and JSON values
\* that are no object
IngestDocs ==
    { JObj(<<KeyCnpj, KeyNome>>,
           <<JStr(<<"1">>), JStr(<<" ", "a", " ", " ", "b">>)>>),
      JObj(<<KeyCnpj, KeyNome>>, <<JStr(<<"2">>), JNum("1e2")>>),
      JObj(<<KeyCnpj, KeyCnpj>>, <<JStr(<<"3">>), JStr(<<"1">>)>>),
      JObj(<<KeyCnpj, KeyNome>>, <<JStr(<<" ", "4">>), JLit("null")>>),
      JObj(<<KeyNome>>, <<JStr(<<"x">>)>>),
      JObj(<<KeyCnpj>>, <<JStr(<<>>)>>),
      JObj(<<KeyCnpj>>, <<JLit("null")>>),
      JArr(<<>>),
      JNum("1") }

\* the envelope the partitioned export writes: {"json_output": doc}
Wrap(doc) == JObj(<<KeyJsonOutput>>, <<doc>>)

\* the lines of a file: whitespace only, not JSON, a document written
\* directly or under the envelope, with or without whitespace between the
\* tokens
IngestLines ==
    { NotJson(<<" ", "\t">>), NotJson(<<"{", " ", "a">>) } \cup
    { JsonText(d, ws) : d \in IngestDocs, ws \in BOOLEAN } \cup
    { JsonText(Wrap(d), ws) : d \in IngestDocs, ws \in BOOLEAN }

\* "if not x" on a value json.loads gave
Falsy(v) ==
    \/ v.k \in {"null", "false"}
    \/ v.k = "str" /\ v.s = <<>>
    \/ v.k = "num" /\ v.s = <<"0">>
    \/ v.k \in {"arr", "obj"} /\ v.items = <<>>

\* dict.get(key): the value of the key, or None
DictGet(d, key) ==
    IF \E i \in DOMAIN d.keys : d.keys[i] = key
    THEN d.items[CHOOSE i \in DOMAIN d.keys : d.keys[i] = key]
    ELSE JLit("null")

\* (mutant) a direct line is kept as it was read
extract_cnpj_and_json_RawDirect(line) ==
    IF ~line.parses THEN <<>>
    ELSE LET data == Loads(line.value)
         IN  IF data.k # "obj" THEN <<>>
             ELSE LET wrapped == \E i \in DOMAIN data.keys :
                                     data.keys[i] = KeyJsonOutput
                      data_element == IF wrapped
                                      THEN DictGet(data, KeyJsonOutput)
                                      ELSE data
                      raw_json == IF wrapped THEN Dumps(data_element) ELSE line
                  IN  IF data_element.k # "obj" THEN <<>>
                      ELSE IF Falsy(DictGet(data_element, KeyCnpj)) THEN <<>>
                      ELSE << [cnpj |-> DictGet(data_element, KeyCnpj),
                               json |-> IF wrapped
                                        THEN clean_json_text(raw_json)
                                        ELSE raw_json] >>

\* _extract_cnpj_and_json on a line: nothing when json.loads refuses the
\* line, when the value read (or the value under json_output) is no dict
\* (the membership test or .get raises, and the except returns None) or when
\* its cnpj is missing or falsy; else the cnpj read and the canonical text
\* of the document, re-serialized first when it came under the envelope
extract_cnpj_and_json(line) ==
    IF ~line.parses THEN <<>>
    ELSE LET data == Loads(line.value)
         IN  IF data.k # "obj" THEN <<>>
             ELSE LET wrapped == \E i \in DOMAIN data.keys :
                                     data.keys[i] = KeyJsonOutput
                      data_element == IF wrapped
                                      THEN DictGet(data, KeyJsonOutput)
                                      ELSE data
                      raw_json == IF wrapped THEN Dumps(data_element) ELSE line
                  IN  IF data_element.k # "obj" THEN <<>>
                      ELSE IF Falsy(DictGet(data_element, KeyCnpj)) THEN <<>>
                      ELSE << [cnpj |-> DictGet(data_element, KeyCnpj),
                               json |-> clean_json_text(raw_json)] >>

\* (mutant) the hash is taken of the line as it was read
process_line_HashOfLine(line) ==
    IF ~line.parses /\ normalize_spaces(line.value.s) = <<>> THEN <<>>
    ELSE LET r == extract_cnpj_and_json(line)
         IN  IF r = <<>> THEN <<>>
             ELSE << [cnpj |-> r[1].cnpj, json |-> r[1].json,
                      hash |-> compute_hash(line)] >>

\* process_line: a blank line and a line without identifier give nothing,
\* else the item carries the canonical text and its hash
process_line(line) ==
    IF ~line.parses /\ normalize_spaces(line.value.s) = <<>> THEN <<>>
    ELSE LET r == extract_cnpj_and_json(line)
         IN  IF r = <<>> THEN <<>>
             ELSE << [cnpj |-> r[1].cnpj, json |-> r[1].json,
                      hash |-> compute_hash(r[1].json)] >>

\* _read_and_process_ndjson: the items of the lines, in file order
RECURSIVE read_and_process_ndjson(_)
read_and_process_ndjson(lines) ==
    IF lines = <<>> THEN <<>>
    ELSE process_line(Head(lines)) \o read_and_process_ndjson(Tail(lines))

\* the scratch directory after "open(<cnpj>.json, 'w'); f.write(item.json)"
\* for each item in turn: a later item of the same name replaces the file
RECURSIVE WriteJsonFiles(_, _)
WriteJsonFiles(dir, items) ==
    IF items = <<>> THEN dir
    ELSE WriteJsonFiles(
             { f \in dir : f.name # Head(items).cnpj } \cup
                 { [name |-> Head(items).cnpj, content |-> Head(items).json] },
             Tail(items))

\* the integrity run on a fetched object: clean_json_spaces of its content,
\* then the hash
RemoteHash(f) == compute_hash(clean_json_text(f.content))

\* a prefix task about to read its NDJSON file
InitIngest ==
    /\ IdleProgram
    /\ op = "none"
    /\ arg \in SeqUpTo(IngestLines, MaxFileLines)
    /\ ret = NoRet
    /\ log = <<>>

\* _read_and_process_ndjson(arg)
IngestRead ==
    /\ op = "none"
    /\ op' = "read"
    /\ ret' = [status |-> "ok", val |-> <<read_and_process_ndjson(arg)>>]
    /\ UNCHANGED <<nonCallVars, arg, log>>

\* process_ndjson_file_to_storage writes a file for each item (every item
\* taken as changed) and the folder is uploaded
IngestWrite ==
    /\ op = "read"
    /\ op' = "written"
    /\ ret' = [ret EXCEPT !.val = Append(@, WriteJsonFiles({}, ret.val[1]))]
    /\ UNCHANGED <<nonCallVars, arg, log>>

\* the integrity run fetches the objects and hashes their canonical text
IngestCheck ==
    /\ op = "written"
    /\ op' = "checked"
    /\ ret' = [ret EXCEPT !.val =
                  Append(@, { [name |-> f.name, hash |-> RemoteHash(f)] :
                                f \in ret.val[2] })]
    /\ UNCHANGED <<nonCallVars, arg, log>>

NextIngest ==
    \/ IngestRead
    \/ IngestWrite
    \/ IngestCheck

SpecIngest == InitIngest /\ [][NextIngest]_vars

(***************************************************************************)
(* Claims                                                                   *)
(***************************************************************************)
\* the rows of identifier c in a catalog: none or one
RowOf(cat, c) == IF c \in DOMAIN cat THEN <<cat[c]>> ELSE <<>>

\* the invocation is over: the command returned, or it hangs for ever
RunOver == exitCode # "none" \/ RunStuck

\* prefix tasks between the start and the end of their sequence
Active ==
    { p \in Tasks : pc[p] \in {"export", "process", "upload_wait", "uploading",
                               "add_batch", "add_async"} }

\* C1: a prefix task enters the catalog write (add_batch_async) only after
\* its upload returned success, and after a failed upload the catalog rows of
\* the identifiers of that prefix are what they were when the catalog was
\* opened.
C1_CatalogWriteGatedOnUpload ==
    \A p \in Tasks :
        /\ pc[p] \in {"add_batch", "add_async"} => uploadResult[p] = "ok"
        /\ uploadResult[p] = "fail" =>
              \A k \in DOMAIN keep[p] :
                  RowOf(dbFile.rows, keep[p][k].cnpj)
                      = RowOf(hist.rowsAtOpen, keep[p][k].cnpj)

\* C1 witness: the upload of a prefix with documents to send failed and the
\* task has ended.
C1_Witness ==
    \E p \in Tasks : uploadResult[p] = "fail" /\ pc[p] = "done" /\ keep[p] # <<>>

\* C2: once the run is over, every identifier that diff yielded for a prefix
\* whose upload returned success has its row in the catalog, with the hash
\* computed for its document in this run.
C2_UploadedRowsInCatalog ==
    RunOver =>
        \A p \in Tasks :
            uploadResult[p] = "ok" =>
                \A k \in DOMAIN keep[p] :
                    RowOf(dbFile.rows, keep[p][k].cnpj) = <<keep[p][k].hash>>

\* C3: in a run that follows a run in which every prefix upload succeeded,
\* on the same inputs, diff yields nothing for every prefix: no upload is
\* issued and no catalog write is started.
C3_RerunUploadsNothing ==
    (run > 1 /\ hist.prevAllOk) =>
        \A p \in Tasks : keep[p] = <<>> /\ uploadResult[p] = "none"

\* C4: after a run that started from an empty catalog and in which every
\* upload succeeded, the catalog has one row per establishment.
C4_OneRowPerEstablishment ==
    (RunOver /\ AllUploadsOk /\ hist.emptyAtOpen) =>
        DOMAIN dbFile.rows = { CnpjOf(e) : e \in estabelecimento }

C6_ManifestAfterTasksAndPublish ==
    mainPc = "manifest_upload" =>
        /\ \A p \in Tasks : pc[p] \in {"done", "raised"}
        /\ published \in {"ok", "fail"}
        /\ hcmLock = NoOne

\* C6 witness: the manifest is being uploaded in a run in which a prefix
\* upload had been issued and the publish failed.
C6_Witness ==
    /\ mainPc = "manifest_upload"
    /\ subproc[Main] = "copy_file"
    /\ \E p \in Tasks : uploadResult[p] = "fail"
    /\ published = "fail"

\* C8: the number of prefix tasks between start and end is at most
\* max_parallel_processing when that is positive, and at most the CPU count
\* when it is 0 (and the CPU count is known).
C8_ParallelPrefixesBounded ==
    /\ cfg.max_parallel_processing > 0
          => Cardinality(Active) <= cfg.max_parallel_processing
    /\ (cfg.max_parallel_processing = 0 /\ cfg.cpu_count # 0)
          => Cardinality(Active) <= cfg.cpu_count

\* C8 witness: with max_parallel_processing 0 and one CPU, one task is
\* active and another waits for the permit.
C8_Witness ==
    /\ cfg.max_parallel_processing = 0
    /\ cfg.cpu_count = 1
    /\ Cardinality(Active) = 1
    /\ \E p \in Tasks : pc[p] = "wait_sem"

\* the callers with a running subprocess of the given kinds
Running(kinds) == { c \in Callers : subproc[c] \in kinds }

\* C7 (as stated): whatever the callers of the transfer pool do, the number
\* of subprocesses running at the same time, started by copy_dir, copy_file
\* or fetch_file, never exceeds max_concurrent_uploads
C7_AllSubprocessesBounded ==
    Cardinality(Running({"copy_dir", "copy_file", "fetch_file"}))
        <= cfg.max_concurrent_uploads

\* C7 (amended): whatever the callers of the transfer pool do, the number of
\* copy_dir subprocesses running at the same time never exceeds
\* max_concurrent_uploads, each of them holding one permit of the upload
\* semaphore; copy_file and fetch_file take no permit
C7_CopyDirBounded ==
    /\ Cardinality(Running({"copy_dir"})) <= cfg.max_concurrent_uploads
    /\ uploadSem = cfg.max_concurrent_uploads - Cardinality(Running({"copy_dir"}))

\* every permit is taken by a copy_dir while a copy_file and a fetch_file run
C7_Witness ==
    /\ uploadSem = 0
    /\ Cardinality(Running({"copy_dir"})) = cfg.max_concurrent_uploads
    /\ Running({"copy_file"}) # {}
    /\ Running({"fetch_file"}) # {}

\* C9: an archive is fetched at most max_retries (3) times; a download that
\* succeeded has its path in the results and is not attempted again; a
\* download gives up only at the third failed attempt and is not attempted
\* again; once one gave up the batch never reaches the extraction and the
\* command returns 1
C9_AtMostThreeAttempts ==
    /\ [](/\ \A u \in 1 .. NumUrls :
               /\ attempts[u] <= max_retries
               /\ dl[u] = "failed" => attempts[u] = max_retries
               /\ dl[u] = "sleeping" => attempts[u] < max_retries
               /\ dl[u] = "done" => Basename(u) \in Range(results)
          /\ (\E u \in 1 .. NumUrls : dl[u] = "failed")
                => mainPc \in {"downloading", "exited"}
          /\ mainPc = "exited" => exitCode = "1")
    /\ [][/\ \A u \in 1 .. NumUrls :
               dl[u] \in {"done", "failed"}
                   => attempts'[u] = attempts[u] /\ dl'[u] = dl[u]
          /\ ((\E u \in 1 .. NumUrls : dl[u] = "failed") /\ mainPc' # mainPc)
                => exitCode' = "1"]_vars

\* a download gave up after three attempts and the command returned 1, while
\* another one had succeeded before its third attempt
C9_Witness ==
    /\ exitCode = "1"
    /\ \E u \in 1 .. NumUrls : dl[u] = "failed" /\ attempts[u] = max_retries
    /\ \E u \in 1 .. NumUrls : dl[u] = "done" /\ attempts[u] < max_retries

C11_FileNamedAfterDocument ==
    /\ \A p \in Tasks : \A f \in scratch[p].files :
           /\ f.cnpj = f.json.cnpj
           /\ \E e \in estabelecimento : f.json.cnpj = CnpjOf(e)
           /\ SubSeq(f.json.cnpj, 1, 2) = prefixes[p]
    /\ \A o \in remote : o.cnpj = o.json.cnpj

\* strip of the specification: the mask characters removed, upper case
SpecStrip(s) == UnmaskUpper(s)

\* C12: is_valid_format(s) is true exactly when strip(s) has length 14, its
\* first 12 characters are in [A-Z0-9], its last 2 are digits 0-9, and its
\* characters are not all the same
C12_ValidExactlyWhenWellFormed ==
    op = "is_valid_format" =>
        (ret.val[1] <=>
            /\ Len(SpecStrip(arg)) = 14
            /\ \A i \in 1 .. 12 :
                   AsciiUpper(SpecStrip(arg)[i]) \/ AsciiDigit(SpecStrip(arg)[i])
            /\ \A i \in 13 .. 14 : AsciiDigit(SpecStrip(arg)[i])
            /\ \E i \in 1 .. 14 : SpecStrip(arg)[i] # SpecStrip(arg)[1])

\* what C13 asks of a triple returned for the string s: parts of 8, 4 and 2
\* characters that put together are strip(s)
ParsedTriple(s, r) ==
    /\ Len(r.val) = 3
    /\ Len(r.val[1]) = 8 /\ Len(r.val[2]) = 4 /\ Len(r.val[3]) = 2
    /\ r.val[1] \o r.val[2] \o r.val[3] = SpecStrip(s)

\* C13 (as stated): parse_cnpj(s) raises exactly when strip(s) does not have
\* length 14, and otherwise returns base, order and check of lengths 8, 4, 2
\* whose concatenation is strip(s), the same triple as for the unmasked form
C13_ParseFailsExactlyOnLength ==
    op = "parse_cnpj" =>
        /\ ret.status = "raise" <=> Len(SpecStrip(arg)) # 14
        /\ ret.status = "ok" =>
              ParsedTriple(arg, ret) /\ parse_cnpj(SpecStrip(arg)) = ret

\* C13 (amended): parse_cnpj(s) raises exactly when s is empty or blank or
\* strip(s) does not have length 14, and otherwise returns base, order and
\* check of lengths 8, 4, 2 whose concatenation is strip(s), the same triple
\* as for the unmasked form unless that form is blank
C13_ParseFailsOnBlankOrLength ==
    op = "parse_cnpj" =>
        /\ ret.status = "raise" <=> (BlankString(arg) \/ Len(SpecStrip(arg)) # 14)
        /\ ret.status = "ok" =>
              /\ ParsedTriple(arg, ret)
              /\ ~BlankString(SpecStrip(arg)) => parse_cnpj(SpecStrip(arg)) = ret

\* a masked identifier was parsed
C13_Witness ==
    /\ op = "parse_cnpj"
    /\ ret.status = "ok"
    /\ \E i \in 1 .. Len(arg) : IsMask(arg[i])

\* the log has the call with the outcome
Logged(name, outcome) ==
    \E i \in 1 .. Len(log) : log[i] = Called(name, outcome)

\* C14: parse_cnpj is applied only to an identifier that validation accepts,
\* whichever path called the single-entity projection
C14_ParseOnlyAfterValid ==
    (\E i \in 1 .. Len(log) : log[i].call = "parse_cnpj")
        => is_valid_format(arg)

\* C15: the single command returns 0 only when the document was found and
\* written, and returns 1 when the identifier is malformed or the projection
\* failed
C15_SingleExitCode ==
    (FromSingleCommand /\ op = "exited") =>
        /\ ret = Returned("exit", "0") => Logged("write", "ok")
        /\ (~is_valid_format(arg) \/ Logged("query", "raise")
              \/ Logged("query", "none") \/ Logged("write", "raise"))
              => ret = Returned("exit", "1")


\* C16: clean_json_spaces is idempotent: applied to the text it returned,
\* whether or not the input parsed as JSON, it returns that text again.
C16_CanonicalizeIdempotent ==
    op = "cleaned_twice" => ret.val[2] = ret.val[1]

\* a JSON text whose value the first pass changed went through both passes
C16_Witness ==
    /\ op = "cleaned_twice"
    /\ arg.parses
    /\ ret.val[1].value # Loads(arg.value)
    /\ ret.val[2] = ret.val[1]

\* the words of a string: its maximal runs of non-whitespace characters
RECURSIVE SplitWords(_, _)
SplitWords(s, word) ==
    IF s = <<>> THEN (IF word = <<>> THEN <<>> ELSE <<word>>)
    ELSE IF IsSpace(s[1])
         THEN (IF word = <<>> THEN <<>> ELSE <<word>>) \o SplitWords(Tail(s), <<>>)
         ELSE SplitWords(Tail(s), Append(word, s[1]))

\* the words joined by one blank
RECURSIVE JoinWords(_)
JoinWords(words) ==
    IF words = <<>> THEN <<>>
    ELSE IF Len(words) = 1 THEN words[1]
    ELSE words[1] \o <<" ">> \o JoinWords(Tail(words))

\* c is v with every string leaf replaced by its whitespace-normalised form
\* and nothing else changed
RECURSIVE OnlyStringLeavesChanged(_, _)
OnlyStringLeavesChanged(v, c) ==
    /\ c.k = v.k
    /\ c.keys = v.keys
    /\ Len(c.items) = Len(v.items)
    /\ IF v.k = "str" THEN c.s = JoinWords(SplitWords(v.s, <<>>)) ELSE c.s = v.s
    /\ \A i \in 1 .. Len(v.items) : OnlyStringLeavesChanged(v.items[i], c.items[i])

\* C17: on a JSON value clean_json_spaces changes only the string leaves,
\* each to its whitespace-normalised form (runs of whitespace collapsed to one
\* blank, ends trimmed); numbers, booleans, null, the keys of objects and
\* their order, the length and order of arrays are unchanged.
C17_OnlyStringLeavesChange ==
    (op = "cleaned" /\ arg.parses) =>
        OnlyStringLeavesChanged(Loads(arg.value), ret.val[1].value)

\* an object with a key holding whitespace, a string leaf that changes and a
\* leaf that is not a string was cleaned
C17_Witness ==
    /\ op = "cleaned"
    /\ arg.parses
    /\ arg.value.k = "obj"
    /\ Len(arg.value.items) = 2
    /\ arg.value.keys = << <<" ", "k", " ">>, <<"k">> >>
    /\ arg.value.items[1] = JStr(<<" ", "\t", "a", " ", " ", "b", "\t">>)
    /\ arg.value.items[2].k = "num"
    /\ ret.val[1].value.items[1] = JStr(<<"a", " ", "b">>)
    /\ ret.val[1].value.keys = arg.value.keys


\* the column a string field of the document is read from (cnpj is read from
\* three)
FieldColumn(f) ==
    CASE f = "razao_social" -> "emp.razao_social"
      [] f = "matriz_filial" -> "e.identificador_matriz_filial"
      [] f = "natureza_juridica" -> "nat.descricao"
      [] f = "municipio" -> "mun.descricao"
      [] f = "email" -> "e.correio_eletronico"
      [] f = "capital_social" -> "emp.capital_social"
      [] f = "porte_empresa" -> "emp.porte_empresa"
      [] f \in {"opcao_simples", "data_opcao_simples", "opcao_mei", "data_opcao_mei"} ->
            "s." \o f
      [] OTHER -> "e." \o f

\* C18: whatever columns and joined rows are missing, every string field of
\* the projected document is a string, and a missing input projects to the
\* empty string.
C18_StringFieldsNeverNull ==
    op \in {"prefix", "cnpj"} =>
        \A f \in StringFields :
            /\ ~IsNull(ret.val[1][f])
            /\ (f # "cnpj" /\ IsNull(arg[FieldColumn(f)])) => ret.val[1][f] = Some(<<>>)

\* the date a projected date field must hold for the input x
C19_Expected(x, out) ==
    IF Len(x) = 8 /\ \A i \in 1 .. 8 : x[i] \in {"0", "1", "2", "3", "4", "5", "6", "7", "8", "9"}
    THEN /\ Len(out) = 10
         /\ \A i \in 1 .. 4 : out[i] = x[i]
         /\ out[5] = "-"
         /\ \A i \in 5 .. 6 : out[i + 1] = x[i]
         /\ out[8] = "-"
         /\ \A i \in 7 .. 8 : out[i + 2] = x[i]
    ELSE out = x

C20_Slots ==
    << <<"e.ddd1", "e.telefone1", FALSE>>,
       <<"e.ddd2", "e.telefone2", FALSE>>,
       <<"e.ddd_fax", "e.fax", TRUE>> >>

\* the slots of a row in which at least one of the two values is not NULL
C20_Present(row) ==
    { i \in 1 .. 3 : ~IsNull(row[C20_Slots[i][1]]) \/ ~IsNull(row[C20_Slots[i][2]]) }

\* the string emitted for a value of a pair
C20_Half(x) == IF IsNull(x) THEN <<>> ELSE x[1]

\* C20: telefones holds exactly one record for each slot with a value that is
\* not NULL, in the order phone1, phone2, fax, is_fax true for the fax slot
\* only, a missing half emitted as the empty string; slots with both values
\* NULL are left out.
C20_TelefonesFiltered ==
    op \in {"prefix", "cnpj"} =>
        LET present == C20_Present(arg)
            tel == ret.val[1].telefones
        IN  /\ Len(tel) = Cardinality(present)
            /\ \A i \in present :
                 tel[Cardinality({ j \in present : j <= i })] =
                     [ddd |-> C20_Half(arg[C20_Slots[i][1]]),
                      numero |-> C20_Half(arg[C20_Slots[i][2]]),
                      is_fax |-> (i = 3)]

\* a row with the number of phone1 only, nothing in phone2 and a full fax was
\* projected to two records
C20_Witness ==
    /\ op \in {"prefix", "cnpj"}
    /\ IsNull(arg["e.ddd1"]) /\ ~IsNull(arg["e.telefone1"])
    /\ IsNull(arg["e.ddd2"]) /\ IsNull(arg["e.telefone2"])
    /\ ~IsNull(arg["e.ddd_fax"]) /\ ~IsNull(arg["e.fax"])
    /\ ret.val[1].telefones =
           << [ddd |-> <<>>, numero |-> <<"1">>, is_fax |-> FALSE],
              [ddd |-> <<"3", "3">>, numero |-> <<"3">>, is_fax |-> TRUE] >>


\* C21: for total >= 2 and a table with at least total distinct
\* establishments, the sample returned has exactly total distinct identifiers
\* and holds an establishment with a simples row and one with a partner row
\* whenever such establishments exist.
C21_SampleSizeAndTargets ==
    (op = "returned" /\ arg.total >= 2 /\ arg.n >= arg.total) =>
        /\ Cardinality(ret.val[1]) = arg.total
        /\ ret.val[1] \subseteq 1 .. arg.n
        /\ arg.simples # {} => ret.val[1] \cap arg.simples # {}
        /\ arg.socio # {} => ret.val[1] \cap arg.socio # {}

\* a sample of three out of four, with the one establishment that has a
\* simples row and the one that has a partner row
C21_Witness ==
    /\ op = "returned"
    /\ arg.total = 3 /\ arg.n = 4
    /\ arg.simples = {4} /\ arg.socio = {3}
    /\ Cardinality(ret.val[1]) = 3
    /\ {3, 4} \subseteq ret.val[1]


C23_KeyOf(f) ==
    CASE f = "data_dir" -> <<"Data", "Dir">>
      [] f = "parquet_dir" -> <<"Parquet", "Dir">>
      [] f = "output_dir" -> <<"Output", "Dir">>
      [] f = "download_dir" -> <<"Download", "Dir">>
      [] f = "hash_cache_dir" -> <<"Hash", "Cache", "Dir">>
      [] f = "remote_base" -> <<"Remote", "Base">>
      [] f = "transfers" -> <<"Transfers">>
      [] f = "max_concurrent_uploads" -> <<"Max", "Concurrent", "Uploads">>
      [] f = "threads_pragma" -> <<"Threads", "Pragma">>
      [] f = "max_parallel_processing" -> <<"Max", "Parallel", "Processing">>
      [] f = "parallel_downloads" -> <<"Parallel", "Downloads">>

\* the section holds the file's value where the file gives the key, the
\* default elsewhere
C23_SectionLoaded(section, keys) ==
    \A f \in DOMAIN section :
        section[f] = IF C23_KeyOf(f) \in keys THEN "file" ELSE "default"

\* C23: AppConfig.load returns for every field the value of the file when the
\* file supplies it and the default otherwise; unknown keys change nothing;
\* a missing or malformed file gives the defaults.
C23_LoadFieldByField ==
    op = "loaded" =>
        LET c == ret.val[1]
        IN  IF arg.state # "json" THEN c = DefaultConfig
            ELSE /\ C23_SectionLoaded(c.paths, arg.Paths)
                 /\ C23_SectionLoaded(c.rclone, arg.Rclone)
                 /\ C23_SectionLoaded(c.duckdb, arg.DuckDb)
                 /\ C23_SectionLoaded(c.ndjson, arg.Ndjson)
                 /\ C23_SectionLoaded(c.downloader, arg.Downloader)


\* C24: add_batch_async on an open catalog always returns, for every list of
\* items: once entered it goes through its items, commits and gives the lock
\* back, so that the lock is free after the call.
C24_AddBatchReturns ==
    (op = "add_async") ~> (op = "returned" /\ hcmLock = NoOne)


\* the item has no catalog row, or its row holds another hash
C26_Changed(cat, it) == RowOf(cat, it.cnpj) # <<it.hash>>

\* C26: for every list and every catalog, get_items_to_process_async yields
\* exactly the items with no catalog row or with a row of another hash, each
\* as often as it occurs in the list, in the order of the list, within and
\* across the probe chunks of 500 items, and the catalog is left unchanged.
C26_DiffYieldsChangedInOrder ==
    op = "diffed" =>
        LET cat == hist.rowsAtOpen
        IN  /\ ret.val[1] = SelectSeq(arg, LAMBDA it : C26_Changed(cat, it))
            /\ dbFile.rows = cat

\* a list longer than one probe chunk, with a changed item on each side of
\* the chunk boundary and an unchanged item after it, was diffed
C26_Witness ==
    /\ op = "diffed"
    /\ Len(arg) = check_batch_size + 2
    /\ C26_Changed(dbFile.rows, arg[check_batch_size])
    /\ C26_Changed(dbFile.rows, arg[check_batch_size + 1])
    /\ ~C26_Changed(dbFile.rows, arg[check_batch_size + 2])
    /\ Len(ret.val[1]) = check_batch_size + 1


\* C25: under fair scheduling, with every engine query and every subprocess
\* returning, the export loop ends all prefix tasks and reaches the catalog
\* publish, whatever prefixes changed and whatever the uploads returned.
C25_ExportLoopReachesPublish ==
    (mainPc = "gather") ~> (GatherDone /\ mainPc = "publish")


\* C27: the catalog never holds two rows of one identifier, and once a run is
\* over in which the upload of a prefix succeeded, every identifier of the
\* prefix that had a row with another hash when the catalog was opened has
\* its single row holding the hash of this run (the prefix was uploaded once).
C27_ChangedRowReplaced ==
    /\ \A c \in DOMAIN dbFile.rows : Len(RowOf(dbFile.rows, c)) = 1
    /\ RunOver =>
         \A p \in Tasks :
             \A k \in DOMAIN keep[p] :
                 ( /\ uploadResult[p] = "ok"
                   /\ RowOf(hist.rowsAtOpen, keep[p][k].cnpj) # <<>>
                   /\ RowOf(hist.rowsAtOpen, keep[p][k].cnpj) # <<keep[p][k].hash>> )
                 => RowOf(dbFile.rows, keep[p][k].cnpj) = <<keep[p][k].hash>>


\* the steps a prefix task may take, each from the end of the step before:
\* permit, NDJSON emission, parse-hash-diff-write, upload, catalog write; a
\* task ends after an empty file or an empty diff, after a failed upload, or
\* after the catalog write
C28_Order ==
    { <<"idle", "wait_sem">>, <<"wait_sem", "export">>, <<"export", "process">>,
      <<"process", "upload_wait">>, <<"process", "done">>,
      <<"upload_wait", "uploading">>, <<"uploading", "add_batch">>,
      <<"uploading", "done">>, <<"add_batch", "add_async">>,
      <<"add_batch", "done">> }

\* C28: within one prefix task the steps follow one another in the order
\* NDJSON emission, parse and hash of all lines, diff, writing of the scratch
\* files, upload, catalog write, each starting from the finished result of
\* the one before: the items diffed are those parsed from the emitted file,
\* the files on disk when the upload starts are those of the diffed items,
\* and the catalog write is entered with the upload returned.
C28_StepsInOrder ==
    [][\A p \in Tasks :
         pc'[p] # pc[p] =>
           /\ <<pc[p], pc'[p]>> \in C28_Order
           /\ pc'[p] = "process" => ndjson'[p].exists
           /\ pc'[p] = "upload_wait" =>
                /\ ndjson[p].exists
                /\ keep'[p] = SelectSeq(ReadAndProcessNdjson(ndjson[p].lines),
                                        LAMBDA it : C26_Changed(dbFile.rows, it))
           /\ pc'[p] = "uploading" =>
                /\ keep[p] # <<>>
                /\ scratch[p].exists
                /\ \A k \in DOMAIN keep[p] :
                       [cnpj |-> keep[p][k].cnpj, json |-> keep[p][k].json]
                           \in scratch[p].files
                /\ subproc[p] = "none" /\ subproc'[p] = "copy_dir"
           /\ pc'[p] = "add_batch" =>
                /\ subproc[p] = "copy_dir" /\ subproc'[p] = "none"
                /\ uploadResult'[p] = "ok"
                /\ \A k \in DOMAIN keep[p] :
                       [cnpj |-> keep[p][k].cnpj, json |-> keep[p][k].json]
                           \in remote'
      ]_vars

\* across prefixes no order: the task of the later prefix is in the catalog
\* write, its upload done, while the task of an earlier prefix is still
\* emitting its NDJSON file
C28_Witness ==
    \E p, q \in Tasks :
        /\ p < q
        /\ pc[p] = "export"
        /\ pc[q] = "add_async"
        /\ uploadResult[q] = "ok"


\* the callers that have a query in progress on the engine session
C29_InProgress == { c \in Callers : query[c] # "none" }

\* C29 as stated: every query issued on the engine session, the per-prefix
\* COPY, the single-identifier projection, the archive streaming query and the
\* establishment count, is executed while its caller holds the engine mutex,
\* and at most one query is in progress at any time.
C29_EveryQueryUnderMutex ==
    /\ \A i \in DOMAIN log :
           log[i].kind \in {"copy", "projection", "stream", "count"} => log[i].locked
    /\ Cardinality(C29_InProgress) <= 1

\* C29 as the code has it: the per-prefix COPY is executed while its task
\* holds the engine mutex; the projection, the streaming query and the count
\* are executed without the mutex, from the command's own coroutine while no
\* prefix task holds it; at most one query is in progress at any time.
C29_OnlyCopyUnderMutex ==
    /\ \A i \in DOMAIN log : log[i].locked <=> log[i].kind = "copy"
    /\ \A c \in C29_InProgress :
           IF query[c] = "copy" THEN connection_lock = c
           ELSE c = Main /\ connection_lock = NoOne
    /\ Cardinality(C29_InProgress) <= 1

\* both prefixes have been copied, one task waiting for the mutex while the
\* COPY of the other was in progress, and the streaming query of the archive
\* is in progress with the mutex free
C29_Witness ==
    /\ query[Main] = "stream"
    /\ connection_lock = NoOne
    /\ Cardinality({ i \in DOMAIN log : log[i].kind = "copy" }) = NumPrefixes
    /\ cfg.max_parallel_processing > 1


\* the download tasks inside the semaphore: in a fetch, or asleep between
\* two attempts
C30_InProgress == { u \in 1 .. NumUrls : dl[u] \in {"fetching", "sleeping"} }

\* max(1, parallel_downloads)
C30_Limit == Max(1, parallel_downloads)

C31_ResultFromExitCode ==
    op = "returned" =>
        /\ ret.status = "returned"
        /\ ret.val[1] = ( /\ arg.spawn
                          /\ arg.code = 0
                          /\ arg.kind = "fetch_file" => arg.exists )

\* an upload of a folder returned success although an ERROR line was read
\* from stderr and shown
C31_Witness ==
    /\ op = "returned"
    /\ arg.kind = "copy_dir"
    /\ ret.val = <<TRUE>>
    /\ \E i \in DOMAIN log : log[i].shown


\* the names of the steps logged so far
C32_StepNames == [i \in DOMAIN log |-> log[i].step]

\* C32: upload_database_async performs its steps in the order commit of the
\* pending inserts, close of the writer connection, copy of the catalog
\* file, packaging, upload, each while the caller holds the catalog lock;
\* the copy finds the connection closed and no insert uncommitted.
C32_PublishStepsInOrder ==
    op \in {"publish", "published"} =>
        /\ C32_StepNames =
               SubSeq(<<"commit", "close", "copy", "zip", "upload">>, 1, Len(log))
        /\ \A i \in DOMAIN log :
             /\ log[i].lock = Main
             /\ log[i].step = "copy" =>
                    ~log[i].open /\ log[i].pending = <<>>
        /\ op = "published" => Len(log) = 5 /\ hcmLock = NoOne

\* a publish after an add_async whose insert was still uncommitted when the
\* publish began has returned: the commit step found the insert, the close
\* step found the connection open
C32_Witness ==
    /\ op = "published"
    /\ log[1].pending # <<>>
    /\ log[2].open
    /\ log[3].step = "copy"
    /\ log[3].rows # hist.rowsAtOpen


\* the stages of the command after the publish of the catalog
C33_LaterStages ==
    {"tester", "tester_loop", "tester_fetch", "zip", "manifest",
     "manifest_upload", "exited"}

\* the step in which upload_database_async returns failure
C33_FailStep ==
    (mainPc = "publish_upload" /\ published' = "fail") =>
        /\ dbFile' = dbFile
        /\ pending' = pending
        /\ remoteZip' = remoteZip
        /\ mainPc' = "tester"
        /\ exitCode' = "none"

\* C33: when the upload of hashes.zip fails, upload_database_async returns
\* failure, the local catalog file keeps the rows committed before the
\* publish and the remote archive is untouched; the command goes on with
\* the stages after the export and, where it ends, ends with code 0.
C33_PublishFailureIsWarning ==
    /\ [](published = "fail" =>
              /\ dbFile.exists
              /\ dbFile.rows = hist.rowsAtOpen
              /\ pending = <<>>
              /\ mainPc \in C33_LaterStages
              /\ mainPc = "exited" => exitCode = "0")
    /\ [][C33_FailStep]_vars

\* a run whose publish failed has ended with code 0, its local catalog
\* holding the rows fetched at open, after a prefix upload had failed too
C33_Witness ==
    /\ published = "fail"
    /\ exitCode = "0"
    /\ dbFile.rows # EmptyCatalog
    /\ \E p \in Tasks : uploadResult[p] = "fail"


\* the calls of initialize_database logged so far
C34_Opens == { i \in DOMAIN log : log[i].ev = "open" }

\* C34 as stated: every open of a closed catalog attempts the fetch of
\* hashes.zip and leaves the rows of the remote catalog when the fetch
\* succeeded and an empty table when it failed; an open of an open catalog
\* changes nothing.
C34_OpenFetchesRemote ==
    \A i \in C34_Opens :
        IF log[i].wasOpen
        THEN log[i].open /\ log[i].rows = log[i].before.rows
        ELSE /\ log[i].open
             /\ log[i].fetch \in {"ok", "fail"}
             /\ log[i].fetch = "ok" =>
                    log[i].remote.exists /\ log[i].rows = log[i].remote.rows
             /\ log[i].fetch = "fail" => log[i].rows = EmptyCatalog

\* C34: an open of a closed catalog whose directory holds no hashes.db
\* attempts the fetch of hashes.zip and leaves the rows of the remote catalog
\* when the fetch succeeded and an empty table when it failed; with a
\* hashes.db in the directory nothing is fetched and the catalog holds the
\* rows of that file; an open of an open catalog changes nothing.
C34_OpenUsesLocalFileElseRemote ==
    \A i \in C34_Opens :
        /\ log[i].open
        /\ IF log[i].wasOpen \/ log[i].before.exists
           THEN /\ log[i].fetch = "none"
                /\ log[i].rows = log[i].before.rows
           ELSE /\ log[i].fetch \in {"ok", "fail"}
                /\ log[i].fetch = "ok" =>
                       log[i].remote.exists /\ log[i].rows = log[i].remote.rows
                /\ log[i].fetch = "fail" => log[i].rows = EmptyCatalog

\* the catalog was opened from a fetched archive with rows and opened once
\* more while open, and holds the rows of the first open
C34_Witness ==
    /\ Len(log) >= 2
    /\ log[1].ev = "open" /\ log[1].fetch = "ok" /\ log[1].rows # EmptyCatalog
    /\ log[2].ev = "open" /\ log[2].wasOpen
    /\ dbFile.rows = log[1].rows


\* C36: get_items_to_process_async is never called on a closed catalog: in
\* every sequence of exports on one instance, each ending with a publish that
\* closes the catalog, the catalog is open at the first diff of each export;
\* a diff that does find the catalog closed raises and yields nothing.
C36_DiffOnlyOnOpenCatalog ==
    /\ \A i \in DOMAIN log : log[i].ev = "diff" => log[i].open
    /\ op = "diff_raised" => ret = [status |-> "raised", val |-> <<>>]


\* C35: _pick_sample_async returns for every table and every requested size,
\* also for a table with fewer distinct identifiers than the requested size
\* and for an empty table.
C35_SamplerTerminates == <>(op = "returned")


\* C37: every archive a run skips as already present is a whole archive, and
\* a download that gave up or was cancelled leaves no file at its target
\* path (unless another URL of the same file name wrote it whole).
C37_SkippedArchivesAreWhole ==
    \A i \in 1 .. Len(urls) :
        /\ dl[urls[i]] = "skipped" => files[Basename(urls[i])] = "complete"
        /\ dl[urls[i]] \in {"failed", "cancelled"} =>
               files[Basename(urls[i])] \in {"absent", "complete"}


\* C38: once a prefix task has ended, or the run is over after its upload
\* succeeded, its scratch directory is gone, and its NDJSON file is gone
\* when the prefix had no change or its upload succeeded.
C38_TaskLeavesNoScratch ==
    \A p \in Tasks :
        (pc[p] = "done" \/ (RunOver /\ uploadResult[p] = "ok")) =>
            /\ ~scratch[p].exists
            /\ (uploadResult[p] = "ok" \/ keep[p] = <<>>) => ~ndjson[p].exists


\* the last item of the list with the identifier
C39_LastItem(items, name) ==
    items[CHOOSE k \in DOMAIN items :
              /\ items[k].cnpj = name
              /\ \A j \in DOMAIN items : j > k => items[j].cnpj # name]

\* the catalog rows add_batch_async's inserts of the items give
C39_Recorded(items) ==
    ApplyInserts(EmptyCatalog,
                 [k \in DOMAIN items |-> <<items[k].cnpj, items[k].hash>>])

\* C39: every item carries the hash of its own canonical text; the file
\* <identifier>.json that is uploaded holds exactly the text of the item of
\* that identifier (of the last one, were an identifier to come twice), so
\* the hash the item carries to the catalog is the hash of the uploaded
\* content, and canonicalizing the uploaded content again gives that hash.
C39_HashIsOfUploadedContent ==
    op \in {"written", "checked"} =>
        LET items == ret.val[1]
            written == ret.val[2]
        IN  /\ \A k \in DOMAIN items :
                   items[k].hash = compute_hash(items[k].json)
            /\ { f.name : f \in written } = { items[k].cnpj : k \in DOMAIN items }
            /\ \A f \in written :
                   /\ f.content = C39_LastItem(items, f.name).json
                   /\ compute_hash(f.content) = C39_LastItem(items, f.name).hash
            /\ op = "checked" =>
                   \A r \in ret.val[3] :
                       /\ r.hash = C39_LastItem(items, r.name).hash
                       /\ r.hash = C39_Recorded(items)[r.name]

\* the object of a document that came on a line with whitespace between the
\* tokens and in a string leaf was written, uploaded and hashed again
C39_Witness ==
    /\ op = "checked"
    /\ Len(arg) = 1 /\ arg[1].parses /\ arg[1].ws
    /\ Len(ret.val[1]) = 1
    /\ ret.val[1][1].json # arg[1]
    /\ ret.val[1][1].json.value # arg[1].value
    /\ Cardinality(ret.val[3]) = 1


\* the document a line holds: the value under json_output when the line is
\* an envelope, else the value of the line
C40_Doc(line) ==
    IF line.value.k = "obj" /\ line.value.keys = <<KeyJsonOutput>>
    THEN line.value.items[1]
    ELSE line.value

\* the line is JSON and its document is an object with a cnpj that is
\* neither null nor empty
C40_HasCnpj(line) ==
    /\ line.parses
    /\ C40_Doc(line).k = "obj"
    /\ \E i \in DOMAIN C40_Doc(line).keys :
         /\ C40_Doc(line).keys[i] = KeyCnpj
         /\ \A j \in DOMAIN C40_Doc(line).keys :
                j > i => C40_Doc(line).keys[j] # KeyCnpj
         /\ C40_Doc(line).items[i].k = "str"
         /\ C40_Doc(line).items[i].s # <<>>

\* the lines of the file that hold a document with a cnpj, in file order
C40_Good(lines) == SelectSeq(lines, C40_HasCnpj)

\* C40: the ingest gives one item for each line that holds a document with a
\* cnpj, in file order, whatever the other lines are (blank, not JSON, no
\* cnpj); the item has the cnpj of the document, the canonical text of the
\* document and its hash, the same for a document written directly and for
\* the same document under the json_output envelope.
C40_BothShapesSameItem ==
    op = "read" =>
        LET items == ret.val[1]
            good == C40_Good(arg)
        IN  /\ Len(items) = Len(good)
            /\ \A k \in DOMAIN items :
                 LET doc == Loads(C40_Doc(good[k]))
                 IN  /\ items[k].cnpj = DictGet(doc, KeyCnpj)
                     /\ items[k].json = Dumps(clean_element(doc))
                     /\ items[k].hash = compute_hash(Dumps(clean_element(doc)))
            /\ \A i, j \in DOMAIN arg :
                 (C40_HasCnpj(arg[i]) /\ C40_Doc(arg[i]) = C40_Doc(arg[j])
                      /\ Len(arg) = 2 /\ i < j)
                 => items[1] = items[2]

\* a file of two lines was read, the same document directly with whitespace
\* between the tokens and under the envelope: two equal items
C40_Witness ==
    /\ op = "read"
    /\ Len(arg) = 2
    /\ arg[1].ws /\ arg[1].value.k = "obj"
    /\ arg[2].value = Wrap(arg[1].value)
    /\ Len(ret.val[1]) = 2
    /\ ret.val[1][1] = ret.val[1][2]
    /\ ret.val[1][1].json.value # arg[1].value

====
